---- MODULE Spec2Model ----
(***************************************************************************)
(* Update-check flow of the Feather wallet main window                     *)
(* (MainWindow::onUpdatesAvailable, onSignedHashesReceived,                *)
(* onCheckUpdatesComplete, onShowUpdateCheck, getPlatformTag).             *)
(*                                                                         *)
(* Strings are TLA+ strings; QString::arg, QString::replace and            *)
(* QByteArray::toHex are computed character by character.                  *)
(***************************************************************************)
EXTENDS Integers, Sequences, FiniteSets, TLC

VARIABLES
    os,                 \* build target: which Q_OS_* / PLATFORM_INSTALLER macros are defined
    appImageEnv,        \* TRUE iff the APPIMAGE environment variable is non-empty
    featherVersionStr,  \* FEATHER_VERSION of the running build
    nChecks,            \* number of UpdatesReceived signals handled so far
    replies,            \* the live QNetworkReply objects created by network.get
    button,             \* m_statusUpdateAvailable: visibility, text, tooltip, click handlers
    completeLog,        \* arguments of every onCheckUpdatesComplete call
    pc,                 \* event thread: "idle", or "waiting" inside runAndWaitForFuture
    cont,               \* locals of the suspended onSignedHashesReceived
    task,               \* the verification task handed to the worker
    lastCheck,          \* how the most recently ended check ended (its log line)
    errorDialogs,       \* error dialogs raised by the flow
    appRunning,         \* FALSE once an exception escaped a handler
    window,             \* the MainWindow object: "open", "closed" (closeEvent ran), "destroyed"
    updateDialog,       \* arguments of the UpdateDialog opened last
    closedAt,           \* number of checks started when closeEvent ran, -1 before
    wallet,             \* m_ctx->wallet: password, isHwBacked, viewOnly, isDeterministic
    txResult,           \* the last onCreateTransactionSuccess call: its arguments and effects
    m_statusLabelStatus,        \* text of the status label
    m_statusText,               \* the status text kept for later display
    m_statusOverrideActive,
    m_constructingTransaction,
    m_txTimer,                  \* TRUE iff the one-second ticker is running
    m_statusDots,
    m_splashDialog,             \* TRUE iff the splash dialog is shown
    overrideTimers,             \* the pending single-shot timers of override calls, by call
    nOverrides,                 \* number of setStatusText calls with override = true so far
    lastOverride,               \* text of the latest override call
    lastStatus,                 \* the latest setStatusText call made without override
    dialogs,                    \* the modal dialogs being exec()ed, innermost last
    verified,                   \* the latest return of verifyPassword
    config,                     \* Config::inactivityLockEnabled, inactivityLockTimeout
    now,                        \* QDateTime::currentSecsSinceEpoch, from the window's creation
    m_userLastActive,
    m_checkUserActivity,        \* TRUE iff the five-second activity timer is running
    shown,                      \* visibility of tabWidget, statusBar and menuBar
    enabled,                    \* QWidget::isEnabled of the window
    m_showDeviceError,
    devicePrompts,              \* the lost-device questions open, each with its repetition
    hwDeviceIcon,               \* icon of m_statusBtnHwDevice
    nDeviceErrors,              \* deviceError signals delivered so far
    nRefreshes,                 \* startRefresh calls made by onDeviceError
    wizard,                     \* TRUE once showWizard(Page_Menu) was called
    recentlyOpenedWallets,      \* Config::recentlyOpenedWallets
    files                       \* the wallet files that exist on disk

flowVars == <<os, appImageEnv, featherVersionStr, nChecks, replies, button, completeLog,
              pc, cont, task, lastCheck, errorDialogs, appRunning, window, updateDialog,
              closedAt>>

txVars == <<txResult>>

\* the status bar apart from the ticker
statusBarVars == <<m_statusLabelStatus, m_statusText, m_statusOverrideActive,
                   m_constructingTransaction, m_statusDots, m_splashDialog, overrideTimers,
                   nOverrides, lastOverride, lastStatus>>

statusVars == <<statusBarVars, m_txTimer>>

lockVars == <<dialogs, verified, config, now, m_userLastActive, m_checkUserActivity,
              shown, enabled>>

deviceVars == <<m_showDeviceError, devicePrompts, hwDeviceIcon, nDeviceErrors, nRefreshes,
                wizard>>

recentVars == <<recentlyOpenedWallets, files>>

\* the state of the window outside the update-check flow
uiVars == <<wallet, txVars, statusVars, lockVars, deviceVars, recentVars>>

vars == <<flowVars, uiVars>>

(***************************************************************************)
(* Bounds                                                                  *)
(***************************************************************************)
MaxChecks == 2

\* setStatusText calls with override = true in one run
MaxOverrides == 2

\* readings of the wall clock after the window was created
MaxClockSteps == 3

\* deviceError signals delivered in one run
MaxDeviceErrors == 5

\* reconnect attempts within one onDeviceError call
MaxAttempts == 3

(***************************************************************************)
(* Text helpers                                                            *)
(***************************************************************************)
Char(s, i) == SubSeq(s, i, i)

Digits == <<"0", "1", "2", "3", "4", "5", "6", "7", "8", "9">>

HexDigits == <<"0", "1", "2", "3", "4", "5", "6", "7", "8", "9", "a", "b", "c", "d", "e", "f">>

IsDigit(c) == \E d \in 1..10 : Digits[d] = c

DigitValue(c) == (CHOOSE d \in 1..10 : Digits[d] = c) - 1

\* index of the first occurrence of the one-character string c in s, 0 if none
IndexOf(s, c) ==
    IF \E i \in 1..Len(s) : Char(s, i) = c
    THEN CHOOSE i \in 1..Len(s) : Char(s, i) = c /\ \A j \in 1..(i - 1) : Char(s, j) # c
    ELSE 0

RECURSIVE ReplaceAll(_, _, _)
\* QString::replace(before, after): every occurrence, left to right
ReplaceAll(s, before, after) ==
    IF Len(s) < Len(before) THEN s
    ELSE IF SubSeq(s, 1, Len(before)) = before
         THEN after \o ReplaceAll(SubSeq(s, Len(before) + 1, Len(s)), before, after)
         ELSE Char(s, 1) \o ReplaceAll(SubSeq(s, 2, Len(s)), before, after)

RECURSIVE toHex_NoPad(_)
toHex_NoPad(bytes) ==
    IF bytes = << >> THEN ""
    ELSE (IF Head(bytes) < 16 THEN "" ELSE HexDigits[(Head(bytes) \div 16) + 1])
         \o HexDigits[(Head(bytes) % 16) + 1] \o toHex_NoPad(Tail(bytes))

RECURSIVE toHex(_)
\* QByteArray::toHex: two lower-case hex digits per byte
toHex(bytes) ==
    IF bytes = << >> THEN ""
    ELSE HexDigits[(Head(bytes) \div 16) + 1] \o HexDigits[(Head(bytes) % 16) + 1]
         \o toHex(Tail(bytes))

(***************************************************************************)
(* utils/SemanticVersion.h lies outside the files modelled here: parsing and *)
(* ordering follow the design document (major.minor.patch, optional        *)
(* pre-release tag, unparseable input never counts as newer).              *)
(***************************************************************************)
\* characters in the order used to compare pre-release tags
CharOrder == "-.0123456789ABCDEFGHIJKLMNOPQRSTUVWXYZabcdefghijklmnopqrstuvwxyz"

RECURSIVE ParseUInt(_)
\* value of a non-empty all-digit string, -1 otherwise
ParseUInt(s) ==
    IF s = "" THEN -1
    ELSE IF ~IsDigit(Char(s, Len(s))) THEN -1
    ELSE IF Len(s) = 1 THEN DigitValue(s)
    ELSE LET front == ParseUInt(SubSeq(s, 1, Len(s) - 1))
         IN  IF front < 0 THEN -1 ELSE 10 * front + DigitValue(Char(s, Len(s)))

InvalidVersion == [valid |-> FALSE, major |-> -1, minor |-> -1, patch |-> -1, pre |-> ""]

fromString(s) ==
    LET dash  == IndexOf(s, "-")
        core  == IF dash = 0 THEN s ELSE SubSeq(s, 1, dash - 1)
        pre   == IF dash = 0 THEN "" ELSE SubSeq(s, dash + 1, Len(s))
        d1    == IndexOf(core, ".")
        rest  == SubSeq(core, d1 + 1, Len(core))
        d2    == IndexOf(rest, ".")
        major == ParseUInt(SubSeq(core, 1, d1 - 1))
        minor == ParseUInt(SubSeq(rest, 1, d2 - 1))
        patch == ParseUInt(SubSeq(rest, d2 + 1, Len(rest)))
    IN  IF d1 = 0 \/ d2 = 0 THEN InvalidVersion
        ELSE IF major < 0 \/ minor < 0 \/ patch < 0 THEN InvalidVersion
        ELSE IF dash # 0 /\ pre = "" THEN InvalidVersion
        ELSE [valid |-> TRUE, major |-> major, minor |-> minor, patch |-> patch, pre |-> pre]

RECURSIVE TextLess(_, _)
\* lexical order of two strings
TextLess(a, b) ==
    IF b = "" THEN FALSE
    ELSE IF a = "" THEN TRUE
    ELSE LET ra == IndexOf(CharOrder, Char(a, 1))
             rb == IndexOf(CharOrder, Char(b, 1))
         IN  IF ra # rb THEN ra < rb
             ELSE TextLess(SubSeq(a, 2, Len(a)), SubSeq(b, 2, Len(b)))

\* a release ranks above its own pre-releases; two pre-release tags compare lexically
PreLess(a, b) ==
    IF a = "" THEN FALSE
    ELSE IF b = "" THEN TRUE
    ELSE TextLess(a, b)

VersionLess(a, b) ==
    IF a.major # b.major THEN a.major < b.major
    ELSE IF a.minor # b.minor THEN a.minor < b.minor
    ELSE IF a.patch # b.patch THEN a.patch < b.patch
    ELSE PreLess(a.pre, b.pre)

\* SemanticVersion::operator<= ; an unparseable left operand is never newer
VersionLeq(a, b) ==
    IF ~a.valid THEN TRUE
    ELSE IF ~b.valid THEN FALSE
    ELSE ~VersionLess(b, a)

(***************************************************************************)
(* Platform                                                                *)
(***************************************************************************)
Builds == {"macos", "windows", "windows-installer", "linux", "other"}

PlatformTags == {"mac", "win", "win-installer", "linux", "linux-appimage", ""}

getPlatformTag_ShortAppImage ==
    IF os = "macos" THEN "mac"
    ELSE IF os = "windows-installer" THEN "win-installer"
    ELSE IF os = "windows" THEN "win"
    ELSE IF os = "linux" THEN (IF appImageEnv THEN "appimage" ELSE "linux")
    ELSE ""

\* MainWindow::getPlatformTag
getPlatformTag ==
    IF os = "macos" THEN "mac"
    ELSE IF os = "windows-installer" THEN "win-installer"
    ELSE IF os = "windows" THEN "win"
    ELSE IF os = "linux" THEN (IF appImageEnv THEN "linux-appimage" ELSE "linux")
    ELSE ""

(***************************************************************************)
(* JSON: an object is a set of <<key, value>> pairs; a missing key reads   *)
(* as the empty object (toObject) or the empty string (toString).          *)
(***************************************************************************)
EmptyObject == {}

JsonHas(obj, key) == \E p \in obj : p[1] = key

JsonObject_AnyKey(obj, key) ==
    IF obj = EmptyObject THEN EmptyObject ELSE (CHOOSE p \in obj : TRUE)[2]

JsonObject(obj, key) ==
    IF JsonHas(obj, key) THEN (CHOOSE p \in obj : p[1] = key)[2] ELSE EmptyObject

JsonString(obj, key) ==
    IF JsonHas(obj, key) THEN (CHOOSE p \in obj : p[1] = key)[2] ELSE ""

(***************************************************************************)
(* Strings built by the flow                                               *)
(***************************************************************************)
websiteUrl == "https://featherwallet.org"

HashesUrl_Running(newVersion) ==
    websiteUrl \o "/files/releases/hashes-" \o featherVersionStr \o "-plain.txt"

\* QString("%1/files/releases/hashes-%2-plain.txt").arg(constants::websiteUrl, newVersion)
HashesUrl(newVersion) == websiteUrl \o "/files/releases/hashes-" \o newVersion \o "-plain.txt"

\* the name the payload itself carries
BinaryFilename_FromFeed(version, platformTag) == "feather.zip"

BinaryFilename_Swapped(version, platformTag) ==
    "feather-" \o platformTag \o "-" \o version \o ".zip"

\* QString("feather-%1-%2.zip").arg(version, platformTag)
BinaryFilename(version, platformTag) == "feather-" \o version \o "-" \o platformTag \o ".zip"

\* versionDisplay.replace("beta", "Beta"); "Update to Feather %1 is available"
UpdateText(version) ==
    "Update to Feather " \o ReplaceAll(version, "beta", "Beta") \o " is available"

(***************************************************************************)
(* Inputs: feed payloads, running versions, reply outcomes                 *)
(***************************************************************************)
ParseableVersions == {"1.1.9", "1.2.0", "1.3.0-beta", "1.3.0", "1.10.0"}

FeedVersions == ParseableVersions \cup {"", "latest", "1.3"}

RunningVersions == {"1.2.0", "1.3.0-beta", "1.10.0"}

PlatformEntries ==
    {{<<"version", v>>, <<"binary_filename", "feather.zip">>} : v \in FeedVersions}
    \cup {{<<"binary_filename", "feather.zip">>}}
    \cup {EmptyObject}

\* the platform keys a payload carries; the last one also has an entry keyed ""
FeedTagSets == {{}, {"linux", "linux-appimage"}, {"mac", "win", "win-installer"},
                PlatformTags}

Feeds ==
    {{<<"platform", {<<t, e>> : t \in T}>>} : T \in FeedTagSets, e \in PlatformEntries}
    \cup {EmptyObject}

EmptyBytes == << >>

Hashes == {<<171, 205>>, <<0, 15>>}

TrustedSigners == {"maintainer"}

Signers == TrustedSigners \cup {"mallory"}

EntrySets ==
    {{},
     {<<"feather-1.3.0-beta-linux.zip", <<0, 15>>>>},
     {<<"feather-1.10.0-mac.zip", <<171, 205>>>>},
     {<<"feather-1.3.0-beta-linux.zip", <<171, 205>>>>, <<"feather-1.10.0-mac.zip", <<0, 15>>>>}}

\* a reply body: what the armored text parses to, or an unparseable blob
EmptyBody == [wellFormed |-> FALSE, signer |-> "", sigValid |-> FALSE, entries |-> {}]

\* every entry set under a good signature, and one body per way of failing the signature check
Manifests ==
    [wellFormed : {TRUE}, signer : TrustedSigners, sigValid : {TRUE}, entries : EntrySets]
    \cup {[wellFormed |-> TRUE, signer |-> "mallory", sigValid |-> TRUE,
           entries |-> {<<"feather-1.3.0-beta-linux.zip", <<171, 205>>>>,
                        <<"feather-1.10.0-mac.zip", <<0, 15>>>>}],
          [wellFormed |-> TRUE, signer |-> "maintainer", sigValid |-> FALSE,
           entries |-> {<<"feather-1.3.0-beta-linux.zip", <<171, 205>>>>,
                        <<"feather-1.10.0-mac.zip", <<0, 15>>>>}],
          EmptyBody}

ValidManifest ==
    [wellFormed |-> TRUE, signer |-> "maintainer", sigValid |-> TRUE,
     entries |-> {<<"feather-1.3.0-beta-linux.zip", <<171, 205>>>>,
                  <<"feather-1.10.0-mac.zip", <<0, 15>>>>}]

\* QNetworkReply::error() values: a transport error, an HTTP error status
NetworkErrors == {"ConnectionRefusedError", "ContentNotFoundError"}

\* how a fetch can end: <<error, body>>; an HTTP error status still carries a body
ReplyOutcomes ==
    {<<"NoError", body>> : body \in Manifests}
    \cup {<<"ConnectionRefusedError", EmptyBody>>, <<"ContentNotFoundError", ValidManifest>>}

(***************************************************************************)
(* utils/Updater.h lies outside the files modelled here: the verifier       *)
(* follows the design document. It throws on a malformed manifest, an      *)
(* unknown signer, a bad signature or a missing entry; otherwise it        *)
(* reports the signer and returns the hash listed for the binary.          *)
(***************************************************************************)
ManifestHas(body, name) == \E e \in body.entries : e[1] = name

\* Updater::verifyParseSignedHashes: [threw, what, hash, signer (out parameter)]
verifyParseSignedHashes(body, name) ==
    IF ~body.wellFormed
    THEN [threw |-> TRUE, what |-> "malformed", hash |-> EmptyBytes, signer |-> ""]
    ELSE IF body.signer \notin TrustedSigners
    THEN [threw |-> TRUE, what |-> "unknown signer", hash |-> EmptyBytes, signer |-> ""]
    ELSE IF ~body.sigValid
    THEN [threw |-> TRUE, what |-> "bad signature", hash |-> EmptyBytes, signer |-> ""]
    ELSE IF ~ManifestHas(body, name)
    THEN [threw |-> TRUE, what |-> "hash not found", hash |-> EmptyBytes,
          signer |-> body.signer]
    ELSE [threw |-> FALSE, what |-> "",
          hash |-> (CHOOSE e \in body.entries : e[1] = name)[2], signer |-> body.signer]

(***************************************************************************)
(* Initial state: after MainWindow's constructor ran initStatusBar and     *)
(* before any UpdatesReceived signal was delivered.                        *)
(***************************************************************************)
NoCont == [reply |-> 0, binaryFilename |-> "", signer |-> ""]

NoTask == [status |-> "none", body |-> EmptyBody, name |-> "", signedHash |-> EmptyBytes,
           what |-> "", escaped |-> FALSE]

NoCheck == [id |-> 0, platformTag |-> "", keyed |-> FALSE, newVersion |-> "",
            state |-> "Idle", reason |-> "None", what |-> ""]

NoDialog == [version |-> "", downloadUrl |-> "", hash |-> "", signer |-> "",
             platformTag |-> ""]

\* MainWindow::initStatusBar: the button is created without text and hidden
InitialButton == [visible |-> FALSE, text |-> "", toolTip |-> "", handlers |-> << >>]

InitFlow ==
    /\ nChecks = 0
    /\ replies = {}
    /\ button = InitialButton
    /\ completeLog = << >>
    /\ pc = "idle"
    /\ cont = NoCont
    /\ task = NoTask
    /\ lastCheck = NoCheck
    /\ errorDialogs = 0
    /\ appRunning = TRUE
    /\ window = "open"
    /\ updateDialog = NoDialog
    /\ closedAt = -1

\* a software wallet with spend key and seed, protected by a password
PlainWallet == [password |-> "hunter2", isHwBacked |-> FALSE, viewOnly |-> FALSE,
                isDeterministic |-> TRUE]

\* no transaction was handed to onCreateTransactionSuccess yet
NoTx == [phase |-> "none", tx |-> << >>, address |-> << >>, errorMsg |-> "",
         disposed |-> FALSE, cached |-> FALSE, committed |-> FALSE, cancelled |-> FALSE,
         confDialog |-> "none", advDialog |-> "none"]

InitTx == txResult = NoTx

\* initStatusBar creates the label with the text "Idle"; no timer runs
InitStatus ==
    /\ m_statusLabelStatus = "Idle"
    /\ m_statusText = ""
    /\ m_statusOverrideActive = FALSE
    /\ m_constructingTransaction = FALSE
    /\ m_txTimer = FALSE
    /\ m_statusDots = 0
    /\ m_splashDialog = FALSE
    /\ overrideTimers = {}
    /\ nOverrides = 0
    /\ lastOverride = ""
    /\ lastStatus = [called |-> FALSE, text |-> ""]

\* no verifyPassword call has returned yet
NotVerified == [caller |-> "none", value |-> FALSE, ret |-> "none", entered |-> ""]

AllShown == [tabWidget |-> TRUE, statusBar |-> TRUE, menuBar |-> TRUE]

\* the constructor starts the activity timer (98-101); the inactivity lock is off
InitLock ==
    /\ dialogs = << >>
    /\ verified = NotVerified
    /\ config = [inactivityLockEnabled |-> FALSE, inactivityLockTimeout |-> 1]
    /\ now = 0
    /\ m_userLastActive = 0
    /\ m_checkUserActivity = TRUE
    /\ shown = AllShown
    /\ enabled = TRUE

\* initStatusBar gives the hardware button the paired icon (164)
InitDevice ==
    /\ m_showDeviceError = FALSE
    /\ devicePrompts = << >>
    /\ hwDeviceIcon = "paired"
    /\ nDeviceErrors = 0
    /\ nRefreshes = 0
    /\ wizard = FALSE

InitRecent ==
    /\ recentlyOpenedWallets = << >>
    /\ files = {}

InitWindowState ==
    /\ InitTx
    /\ InitStatus
    /\ InitLock
    /\ InitDevice
    /\ InitRecent

InitUi ==
    /\ wallet = PlainWallet
    /\ InitWindowState

\* every build runs 1.2.0; the plain Linux build is also explored at the other versions
Init ==
    /\ os \in Builds
    /\ appImageEnv \in (IF os = "linux" THEN BOOLEAN ELSE {FALSE})
    /\ featherVersionStr \in (IF os = "linux" /\ ~appImageEnv THEN RunningVersions
                                                               ELSE {"1.2.0"})
    /\ InitFlow
    /\ InitUi

\* the plain Linux build with no update check started
FlowAtRest ==
    /\ os = "linux"
    /\ appImageEnv = FALSE
    /\ featherVersionStr = "1.2.0"
    /\ InitFlow

(***************************************************************************)
(* MainWindow::onUpdatesAvailable                                          *)
(***************************************************************************)
PlatformUnsupported_Never(platformTag) == FALSE

PlatformUnsupported(platformTag) == platformTag = ""

PlatformDataMissing(platformData) == platformData = EmptyObject

VersionNotNewer_Strict(newVersion, running) ==
    LET a == fromString(newVersion)
        b == fromString(running)
    IN  ~a.valid \/ (b.valid /\ VersionLess(a, b))

VersionNotNewer_ValidOnly(newVersion, running) ==
    fromString(newVersion).valid /\ VersionLeq(fromString(newVersion), fromString(running))

VersionNotNewer(newVersion, running) == VersionLeq(fromString(newVersion), fromString(running))

\* keyed: whether the payload had an entry under the platform tag
Ended(id, platformTag, keyed, newVersion, state, reason, what) ==
    [id |-> id, platformTag |-> platformTag, keyed |-> keyed, newVersion |-> newVersion,
     state |-> state, reason |-> reason, what |-> what]

NewReply(id, url, platformTag, version) ==
    [id |-> id, url |-> url, platformTag |-> platformTag, version |-> version,
     status |-> "pending", error |-> "NoError", body |-> EmptyBody,
     bodyRead |-> FALSE, deleteLater |-> FALSE]

onUpdatesAvailable(updates) ==
    /\ pc = "idle"
    /\ appRunning
    /\ nChecks < MaxChecks
    /\ nChecks' = nChecks + 1
    /\ LET platformTag  == getPlatformTag
           platformData == JsonObject(JsonObject(updates, "platform"), platformTag)
           newVersion   == JsonString(platformData, "version")
           keyed        == JsonHas(JsonObject(updates, "platform"), platformTag)
       IN  IF PlatformUnsupported(platformTag)
           THEN /\ lastCheck' = Ended(nChecks', platformTag, keyed, "", "Aborted",
                                      "UnsupportedPlatform", "")
                /\ UNCHANGED replies
           ELSE IF PlatformDataMissing(platformData)
           THEN /\ lastCheck' = Ended(nChecks', platformTag, keyed, "", "Aborted",
                                      "FeedDataMissing", "")
                /\ UNCHANGED replies
           ELSE IF VersionNotNewer(newVersion, featherVersionStr)
           THEN /\ lastCheck' = Ended(nChecks', platformTag, keyed, newVersion, "Aborted",
                                      "VersionNotNewer", "")
                /\ UNCHANGED replies
           ELSE /\ replies' = replies \cup {NewReply(nChecks', HashesUrl(newVersion),
                                                     platformTag, newVersion)}
                /\ UNCHANGED lastCheck
    /\ UNCHANGED <<uiVars, os, appImageEnv, featherVersionStr, button, completeLog, pc, cont, task,
                   errorDialogs, appRunning, window, updateDialog, closedAt>>

(***************************************************************************)
(* MainWindow::onSignedHashesReceived, up to the wait for the worker       *)
(***************************************************************************)
FetchFailed_TransportOnly(error) == error = "ConnectionRefusedError"

FetchFailed(error) == error # "NoError"

ReplyAfterError_Retry(reply, error, body) == reply

\* the early return leaves the reply as it finished: unread, not scheduled for deletion
ReplyAfterError(reply, error, body) ==
    [reply EXCEPT !.status = "finished", !.error = error, !.body = body]

\* as if the handler took platform tag and version from the request issued last
BoundArgs_Latest(reply) ==
    LET last == CHOOSE r \in replies : \A q \in replies : q.id <= r.id
    IN  [platformTag |-> last.platformTag, version |-> last.version]

\* the thread the window and its widgets live in
UiThread == "gui"

\* connect(reply, finished, this, ...): the slot runs in the thread of its context object,
\* the window, and calls runAndWaitForFuture from there
ContinuationThread == UiThread

\* std::bind(..., this, reply, platformTag, newVersion): the values at the time of connect
BoundArgs(reply) == [platformTag |-> reply.platformTag, version |-> reply.version]

onSignedHashesReceived(reply, error, body) ==
    /\ pc = "idle"
    /\ appRunning
    /\ reply \in replies
    /\ reply.status = "pending"
    /\ LET binaryFilename == BinaryFilename(BoundArgs(reply).version,
                                            BoundArgs(reply).platformTag)
       IN  IF FetchFailed(error)
           THEN /\ replies' = (replies \ {reply}) \cup {ReplyAfterError(reply, error, body)}
                /\ lastCheck' = Ended(reply.id, reply.platformTag, TRUE, reply.version,
                                      "Aborted", "NetworkFailure", "")
                /\ UNCHANGED <<pc, cont, task>>
           ELSE \* readAll moves the body out of the reply into armoredSignedHashes
                /\ replies' = (replies \ {reply})
                              \cup {[reply EXCEPT !.status = "finished", !.error = error,
                                                  !.body = EmptyBody, !.bodyRead = TRUE,
                                                  !.deleteLater = TRUE]}
                /\ cont' = [reply |-> reply.id, binaryFilename |-> binaryFilename,
                            signer |-> ""]
                /\ task' = [status |-> "queued", body |-> body, name |-> binaryFilename,
                            signedHash |-> EmptyBytes, what |-> "", escaped |-> FALSE]
                /\ pc' = "waiting"
                /\ UNCHANGED lastCheck
    /\ UNCHANGED <<uiVars, os, appImageEnv, featherVersionStr, nChecks, button, completeLog,
                   errorDialogs, appRunning, window, updateDialog, closedAt>>

(***************************************************************************)
(* The task run by AsyncTask::runAndWaitForFuture on the worker            *)
(***************************************************************************)
VerifyTask_NoCatch(body, name) ==
    LET r == verifyParseSignedHashes(body, name)
    IN  [signedHash |-> r.hash, signer |-> r.signer, what |-> r.what, escaped |-> r.threw]

\* as if the lambda captured signer by value: the verifier fills a copy
VerifyTask_SignerByValue(body, name) ==
    LET r == verifyParseSignedHashes(body, name)
    IN  [signedHash |-> IF r.threw THEN EmptyBytes ELSE r.hash,
         signer |-> "",
         what |-> r.what,
         escaped |-> FALSE]

\* the lambda: the verifier's result, or an empty array when it threw
VerifyTask(body, name) ==
    LET r == verifyParseSignedHashes(body, name)
    IN  [signedHash |-> IF r.threw THEN EmptyBytes ELSE r.hash,
         signer |-> r.signer,
         what |-> r.what,
         escaped |-> FALSE]

\* the task is dropped and its future never completes
RunVerifyTask_Lost ==
    /\ task.status = "queued"
    /\ task' = [task EXCEPT !.status = "lost"]
    /\ UNCHANGED <<uiVars, os, appImageEnv, featherVersionStr, nChecks, replies, button,
                   completeLog, pc, cont, lastCheck, errorDialogs, appRunning, window,
                   updateDialog, closedAt>>

RunVerifyTask ==
    /\ task.status = "queued"
    /\ LET r == VerifyTask(task.body, task.name)
       IN  /\ task' = [task EXCEPT !.status = "done", !.signedHash = r.signedHash,
                                   !.what = r.what, !.escaped = r.escaped]
           /\ cont' = [cont EXCEPT !.signer = r.signer]
    /\ UNCHANGED <<uiVars, os, appImageEnv, featherVersionStr, nChecks, replies, button,
                   completeLog, pc, lastCheck, errorDialogs, appRunning, window,
                   updateDialog, closedAt>>

(***************************************************************************)
(* MainWindow::onCheckUpdatesComplete                                      *)
(***************************************************************************)
\* as if the earlier handler were left connected
onCheckUpdatesComplete_NoDisconnect(version, binaryFilename, hash, signer) ==
    [visible  |-> TRUE,
     text     |-> UpdateText(version),
     toolTip  |-> "Click to Download update.",
     handlers |-> Append(button.handlers,
                         [version |-> version, binaryFilename |-> binaryFilename,
                          hash |-> hash, signer |-> signer])]

onCheckUpdatesComplete(version, binaryFilename, hash, signer) ==
    [visible  |-> TRUE,
     text     |-> UpdateText(version),
     toolTip  |-> "Click to Download update.",
     handlers |-> <<[version |-> version, binaryFilename |-> binaryFilename,
                     hash |-> hash, signer |-> signer]>>]

(***************************************************************************)
(* MainWindow::onSignedHashesReceived, after the wait returned             *)
(***************************************************************************)
SignedHashEmpty_Never(signedHash) == FALSE

SignedHashEmpty(signedHash) == signedHash = EmptyBytes

\* AsyncTask::runAndWaitForFuture returns once the worker has run the task
FutureFinished == task.status = "done"

onSignedHashesVerified ==
    /\ pc = "waiting"
    /\ FutureFinished
    /\ LET reply == CHOOSE r \in replies : r.id = cont.reply
           version == reply.version
           hash == toHex(task.signedHash)
       IN  /\ IF task.escaped
              THEN /\ appRunning' = FALSE
                   /\ lastCheck' = Ended(reply.id, reply.platformTag, TRUE, version, "Aborted",
                                         "VerificationFailure", task.what)
                   /\ UNCHANGED <<button, completeLog>>
              ELSE IF SignedHashEmpty(task.signedHash)
              THEN /\ lastCheck' = Ended(reply.id, reply.platformTag, TRUE, version, "Aborted",
                                         "VerificationFailure", task.what)
                   /\ UNCHANGED <<button, completeLog, appRunning>>
              ELSE /\ button' = onCheckUpdatesComplete(version, cont.binaryFilename, hash,
                                                       cont.signer)
                   /\ completeLog' = Append(completeLog,
                                            [check |-> reply.id, version |-> version,
                                             binaryFilename |-> cont.binaryFilename,
                                             hash |-> hash, signer |-> cont.signer])
                   /\ lastCheck' = Ended(reply.id, reply.platformTag, TRUE, version,
                                         "VerifiedReady", "None", "")
                   /\ UNCHANGED appRunning
           \* back in the event loop the reply scheduled by deleteLater is deleted
           /\ replies' = replies \ {reply}
    /\ pc' = "idle"
    /\ cont' = NoCont
    /\ task' = NoTask
    /\ UNCHANGED <<uiVars, os, appImageEnv, featherVersionStr, nChecks, errorDialogs, window,
                   updateDialog, closedAt>>

(***************************************************************************)
(* MainWindow::onShowUpdateCheck, run by the click handler that            *)
(* onCheckUpdatesComplete connected                                        *)
(***************************************************************************)
DownloadUrl_NoPlatform(platformTag, binaryFilename) ==
    "https://featherwallet.org/files/releases/" \o binaryFilename

\* QString("https://featherwallet.org/files/releases/%1/%2").arg(platformTag, binaryFilename)
DownloadUrl(platformTag, binaryFilename) ==
    "https://featherwallet.org/files/releases/" \o platformTag \o "/" \o binaryFilename

\* the arguments UpdateDialog is constructed with
onShowUpdateCheck(version, binaryFilename, hash, signer) ==
    LET platformTag == getPlatformTag
        downloadUrl == DownloadUrl(platformTag, binaryFilename)
    IN  [version |-> version, downloadUrl |-> downloadUrl, hash |-> hash, signer |-> signer,
         platformTag |-> platformTag]

\* StatusBarButton::clicked: the user clicks the visible button of the open window
ButtonClicked ==
    /\ pc = "idle"
    /\ appRunning
    /\ window = "open"
    /\ button.visible
    /\ button.handlers # << >>
    /\ LET h == button.handlers[Len(button.handlers)]
       IN  updateDialog' = onShowUpdateCheck(h.version, h.binaryFilename, h.hash, h.signer)
    /\ UNCHANGED <<uiVars, os, appImageEnv, featherVersionStr, nChecks, replies, button, completeLog,
                   pc, cont, task, lastCheck, errorDialogs, appRunning, window, closedAt>>

(***************************************************************************)
(* MainWindow::closeEvent, and the deletion that WA_DeleteOnClose posts    *)
(* once the close event was accepted                                       *)
(***************************************************************************)
closeEvent ==
    /\ pc = "idle"
    /\ appRunning
    /\ window = "open"
    /\ window' = "closed"
    /\ closedAt' = nChecks
    /\ m_txTimer' = FALSE
    /\ UNCHANGED <<wallet, txVars, statusBarVars, lockVars, deviceVars, recentVars, os, appImageEnv, featherVersionStr, nChecks, replies, button, completeLog,
                   pc, cont, task, lastCheck, errorDialogs, appRunning, updateDialog>>

\* the event loop deletes the closed window; its connections go with it
DeferredDelete ==
    /\ pc = "idle"
    /\ window = "closed"
    /\ window' = "destroyed"
    /\ UNCHANGED <<uiVars, os, appImageEnv, featherVersionStr, nChecks, replies, button, completeLog,
                   pc, cont, task, lastCheck, errorDialogs, appRunning, updateDialog, closedAt>>

(***************************************************************************)
(* Specification                                                           *)
(***************************************************************************)
\* a connection made with the window as context object lasts until the window is destroyed
Connected == window # "destroyed"

UpdatesReceived == Connected /\ \E updates \in Feeds : onUpdatesAvailable(updates)

ReplyFinished ==
    /\ Connected
    /\ \E reply \in replies, outcome \in ReplyOutcomes :
          onSignedHashesReceived(reply, outcome[1], outcome[2])

Next ==
    \/ UpdatesReceived
    \/ ReplyFinished
    \/ RunVerifyTask
    \/ onSignedHashesVerified

Spec == Init /\ [][Next]_vars

\* pending requests complete, the worker runs its task, the wait returns
FairSpec ==
    /\ Spec
    /\ WF_vars(ReplyFinished)
    /\ WF_vars(RunVerifyTask)
    /\ WF_vars(onSignedHashesVerified)

\* the flow together with the user's clicks and the closing of the window
NextWindow ==
    \/ Next
    \/ ButtonClicked
    \/ closeEvent
    \/ DeferredDelete

SpecWindow == Init /\ [][NextWindow]_vars

(***************************************************************************)
(* MainWindow::onCreateTransactionSuccess                                  *)
(***************************************************************************)
TxStatuses == {"Status_Ok", "Status_Error"}

TxCounts == {0, 1, 2}

TxErrorStrings == {"not enough money",
                   "Node response did not include the requested real output"}

\* two standard addresses and an integrated address of the first
TxAddresses == {"4A", "4B", "iA"}

\* WalletManager::baseAddressFromIntegratedAddress: the standard address an integrated
\* address was derived from; a standard address is returned as it is
baseAddressFromIntegratedAddress(address) == IF address = "iA" THEN "4A" ELSE address

\* what AppContext hands over: a transaction with Status_Ok has no error string, one
\* without transactions has no outputs
PendingTransactions ==
    {t \in [status : TxStatuses, txCount : TxCounts, outputs : SUBSET TxAddresses,
            errorString : TxErrorStrings \cup {""}] :
        /\ (t.status = "Status_Ok") = (t.errorString = "")
        /\ t.txCount = 0 => t.outputs = {}}

\* the destinations the user asked for: one, or several (pay to many)
DestinationLists ==
    {<<a>> : a \in TxAddresses} \cup {<<a, b>> : a \in TxAddresses, b \in TxAddresses}

ConnectionStatuses == {"ConnectionStatus_Synchronized", "ConnectionStatus_WrongVersion"}

currentNode == "node.example:18081"

\* the message of the not-Ok branch (626-642)
TxErrorMessage(tx_err, connectionStatus) ==
    LET err  == "Can't create transaction: "
        err1 == IF connectionStatus = "ConnectionStatus_WrongVersion"
                   THEN err \o " Wrong node version: " \o tx_err
                   ELSE err \o " " \o tx_err
    IN  IF tx_err = "Node response did not include the requested real output"
           THEN err1 \o "\nYou are currently connected to: " \o currentNode \o "\n\n"
                     \o "This node may be acting maliciously. You are strongly recommended to disconnect from this node."
                     \o "Please report this incident to dev@featherwallet.org, #feather on OFTC or /r/FeatherWallet."
           ELSE err1

\* as if the comparison of the addresses were left out
SendsToAllDestinations_Unchecked(tx, address) == TRUE

\* the weak check of lines 664-677: every requested destination, as a standard address,
\* is among the standard addresses of the outputs
SendsToAllDestinations(tx, address) ==
    LET outputAddresses == {baseAddressFromIntegratedAddress(o) : o \in tx.outputs}
        destAddresses   ==
            {baseAddressFromIntegratedAddress(address[i]) : i \in 1..Len(address)}
    IN  destAddresses \subseteq outputAddresses

\* displayWalletErrorMsg(err); disposeTransaction(tx); return
TxRejected(tx, address, err) ==
    [phase |-> "returned", tx |-> tx, address |-> address, errorMsg |-> err,
     disposed |-> TRUE, cached |-> FALSE, committed |-> FALSE, cancelled |-> FALSE,
     confDialog |-> "none", advDialog |-> "none"]

\* the handler up to the exec() of the confirmation dialog, or to its return
onCreateTransactionSuccess(tx, address, connectionStatus) ==
    /\ window = "open"
    /\ txResult.phase # "TxConfDialog"
    /\ txResult' =
         IF tx.status # "Status_Ok"
            THEN TxRejected(tx, address, TxErrorMessage(tx.errorString, connectionStatus))
         ELSE IF tx.txCount = 0
            THEN TxRejected(tx, address,
                     "Can't create transaction: " \o " " \o "No unmixable outputs to sweep.")
         ELSE IF tx.txCount > 1
            THEN TxRejected(tx, address,
                     "Can't create transaction: " \o " "
                     \o "Split transactions are not supported. Try sending a smaller amount.")
         ELSE IF ~SendsToAllDestinations(tx, address)
            THEN TxRejected(tx, address,
                     "Can't create transaction: " \o " "
                     \o "Constructed transaction doesn't appear to send to (all) specified destination address(es). Try creating the transaction again.")
         ELSE IF Len(address) > 1 \/ wallet.viewOnly
            THEN [phase |-> "returned", tx |-> tx, address |-> address, errorMsg |-> "",
                  disposed |-> FALSE, cached |-> TRUE, committed |-> FALSE,
                  cancelled |-> FALSE, confDialog |-> "none",
                  advDialog |-> IF wallet.viewOnly THEN "unsigned" ELSE "signed"]
         ELSE [phase |-> "TxConfDialog", tx |-> tx, address |-> address, errorMsg |-> "",
               disposed |-> FALSE, cached |-> TRUE, committed |-> FALSE,
               cancelled |-> FALSE, confDialog |-> "open", advDialog |-> "none"]
    /\ UNCHANGED <<flowVars, wallet, statusVars, lockVars, deviceVars, recentVars>>

DialogCodes == {"Accepted", "Rejected"}

\* dialog.exec() returns: the rest of the handler (696-712)
TxConfDialogDone(result, showAdvanced) ==
    /\ txResult.phase = "TxConfDialog"
    /\ txResult' = [txResult EXCEPT
                      !.phase      = "returned",
                      !.confDialog = result,
                      !.cancelled  = (result = "Rejected" /\ ~showAdvanced),
                      !.committed  = (result = "Accepted"),
                      !.advDialog  = IF showAdvanced THEN "signed" ELSE "none"]
    /\ UNCHANGED <<flowVars, wallet, statusVars, lockVars, deviceVars, recentVars>>

createTransactionSuccess ==
    \E tx \in PendingTransactions, address \in DestinationLists,
       connectionStatus \in ConnectionStatuses :
          onCreateTransactionSuccess(tx, address, connectionStatus)

TxConfDialogClosed ==
    \E result \in DialogCodes, showAdvanced \in BOOLEAN : TxConfDialogDone(result, showAdvanced)

NextTx ==
    \/ createTransactionSuccess
    \/ TxConfDialogClosed

\* the wallet is a full wallet or a view-only one
InitSpecTx ==
    /\ FlowAtRest
    /\ wallet \in {PlainWallet, [PlainWallet EXCEPT !.viewOnly = TRUE]}
    /\ InitWindowState

SpecTx == InitSpecTx /\ [][NextTx]_vars

(***************************************************************************)
(* MainWindow::setStatusText, the transaction ticker (m_txTimer),          *)
(* onInitiateTransaction, onEndTransaction                                 *)
(***************************************************************************)
\* texts of ordinary calls (576-609) and of override calls made by other widgets
StatusTexts == {"Synchronized", "Disconnected", "Connecting to node"}

OverrideTexts == {"Link copied to clipboard", "Saved"}

\* as if a text set while the label is taken were dropped
StoredStatusText_Dropped(text) ==
    IF m_statusOverrideActive \/ m_constructingTransaction THEN m_statusText ELSE text

\* line 541: m_statusText = text
StoredStatusText(text) == text

\* lines 543-545: the label after setStatusText(text) with override = false
LabelAfterSetStatusText(text, overrideActive, constructingTransaction) ==
    IF ~overrideActive /\ ~constructingTransaction THEN text ELSE m_statusLabelStatus

\* MainWindow::statusDots
statusDots(dots) == (dots + 1) % 4

Dots(n) == IF n = 0 THEN "" ELSE IF n = 1 THEN "." ELSE IF n = 2 THEN ".." ELSE "..."

\* setStatusText(text) of another handler, override = false
setStatusText(text) ==
    /\ window = "open"
    /\ m_statusText' = StoredStatusText(text)
    /\ m_statusLabelStatus' =
          LabelAfterSetStatusText(text, m_statusOverrideActive, m_constructingTransaction)
    /\ lastStatus' = [called |-> TRUE, text |-> text]
    /\ UNCHANGED <<flowVars, wallet, txVars, lockVars, deviceVars, recentVars,
                   m_statusOverrideActive,
                   m_constructingTransaction, m_txTimer, m_statusDots, m_splashDialog,
                   overrideTimers, nOverrides, lastOverride>>

\* setStatusText(text, true, timeout): lines 531-539
setStatusTextOverride(text) ==
    /\ window = "open"
    /\ nOverrides < MaxOverrides
    /\ m_statusOverrideActive' = TRUE
    /\ m_statusLabelStatus' = text
    /\ nOverrides' = nOverrides + 1
    /\ overrideTimers' = overrideTimers \cup {nOverrides + 1}
    /\ lastOverride' = text
    /\ UNCHANGED <<flowVars, wallet, txVars, lockVars, deviceVars, recentVars,
                   m_statusText, m_constructingTransaction,
                   m_txTimer, m_statusDots, m_splashDialog, lastStatus>>

\* the single-shot timer of override call id fires: lines 534-537
OverrideTimeout(id) ==
    /\ window = "open"
    /\ id \in overrideTimers
    /\ overrideTimers' = overrideTimers \ {id}
    /\ m_statusOverrideActive' = FALSE
    /\ m_statusText' = StoredStatusText(m_statusText)
    /\ m_statusLabelStatus' =
          LabelAfterSetStatusText(m_statusText, FALSE, m_constructingTransaction)
    /\ UNCHANGED <<flowVars, wallet, txVars, lockVars, deviceVars, recentVars,
                   m_constructingTransaction, m_txTimer,
                   m_statusDots, m_splashDialog, nOverrides, lastOverride, lastStatus>>

onInitiateTransaction ==
    /\ window = "open"
    /\ m_statusDots' = 0
    /\ m_constructingTransaction' = TRUE
    /\ m_txTimer' = TRUE
    /\ m_splashDialog' = (wallet.isHwBacked \/ m_splashDialog)
    /\ UNCHANGED <<flowVars, wallet, txVars, lockVars, deviceVars, recentVars,
                   m_statusLabelStatus, m_statusText,
                   m_statusOverrideActive, overrideTimers, nOverrides, lastOverride,
                   lastStatus>>

\* m_txTimer times out: the lambda of lines 86-88
TxTimerTimeout ==
    /\ window = "open"
    /\ m_txTimer
    /\ m_statusDots' = statusDots(m_statusDots)
    /\ m_statusLabelStatus' = "Constructing transaction" \o Dots(statusDots(m_statusDots))
    /\ UNCHANGED <<flowVars, wallet, txVars, lockVars, deviceVars, recentVars,
                   m_statusText, m_statusOverrideActive,
                   m_constructingTransaction, m_txTimer, m_splashDialog, overrideTimers,
                   nOverrides, lastOverride, lastStatus>>

onEndTransaction ==
    /\ window = "open"
    /\ m_constructingTransaction' = FALSE
    /\ m_txTimer' = FALSE
    /\ m_statusText' = StoredStatusText(m_statusText)
    /\ m_statusLabelStatus' =
          LabelAfterSetStatusText(m_statusText, m_statusOverrideActive, FALSE)
    /\ m_splashDialog' = (~wallet.isHwBacked /\ m_splashDialog)
    /\ UNCHANGED <<flowVars, wallet, txVars, lockVars, deviceVars, recentVars,
                   m_statusOverrideActive, m_statusDots,
                   overrideTimers, nOverrides, lastOverride, lastStatus>>

StatusTextSet == \E text \in StatusTexts : setStatusText(text)

StatusOverrideSet == \E text \in OverrideTexts : setStatusTextOverride(text)

OverrideTimerFired == \E id \in overrideTimers : OverrideTimeout(id)

NextStatus ==
    \/ StatusTextSet
    \/ StatusOverrideSet
    \/ OverrideTimerFired
    \/ onInitiateTransaction
    \/ TxTimerTimeout
    \/ onEndTransaction

InitSpecStatus ==
    /\ FlowAtRest
    /\ wallet \in {PlainWallet, [PlainWallet EXCEPT !.isHwBacked = TRUE]}
    /\ InitWindowState

SpecStatus == InitSpecStatus /\ [][NextStatus]_vars

(***************************************************************************)
(* MainWindow::verifyPassword and its callers: showSeedDialog,             *)
(* showKeysDialog, showWalletCacheDebugDialog, checkUserActivity           *)
(***************************************************************************)
EnteredPasswords == {"hunter2", "letmein", ""}

\* the clock is observed every half minute
ClockStep == 30

SecsPerMinute == 60

AllHidden == [tabWidget |-> FALSE, statusBar |-> FALSE, menuBar |-> FALSE]

PasswordPrompt(caller, incorrectPassword) ==
    [kind |-> "PasswordDialog", caller |-> caller, incorrectPassword |-> incorrectPassword,
     text |-> ""]

ModalDialog(kind, caller, text) ==
    [kind |-> kind, caller |-> caller, incorrectPassword |-> FALSE, text |-> text]

TopDialog == dialogs[Len(dialogs)]

PopDialog == SubSeq(dialogs, 1, Len(dialogs) - 1)

\* a modal dialog takes the input of the window; a disabled window takes none
UserCanAct == window = "open" /\ enabled /\ dialogs = << >>

\* as if any non-empty password were accepted
PasswordMatches_NonEmpty(password) == password # ""

\* line 1624
PasswordMatches(password) == password = wallet.password

\* as if the lock did not depend on the time of the last activity
InactivityTimeoutPassed_Always(lastActive, timeout, secs) == TRUE

\* line 1654
InactivityTimeoutPassed(lastActive, timeout, secs) ==
    lastActive + timeout * SecsPerMinute < secs

\* the dialog each caller opens once verifyPassword has returned true
DialogAfterPassword(caller) ==
    CASE caller = "showSeedDialog"             -> "SeedDialog"
      [] caller = "showKeysDialog"             -> "KeysDialog"
      [] caller = "showWalletCacheDebugDialog" -> "WalletCacheDebugDialog"

showSeedDialog ==
    /\ UserCanAct
    /\ dialogs' = Append(dialogs,
         IF wallet.isHwBacked
            THEN ModalDialog("information", "showSeedDialog",
                     "Seed unavailable: Wallet keys are stored on hardware device.")
         ELSE IF wallet.viewOnly
            THEN ModalDialog("information", "showSeedDialog",
                     "Wallet is view-only and has no seed.\n\nTo obtain wallet keys go to Wallet -> View-Only")
         ELSE IF ~wallet.isDeterministic
            THEN ModalDialog("information", "showSeedDialog",
                     "Wallet is non-deterministic and has no seed.\n\nTo obtain wallet keys go to Wallet -> Keys")
         ELSE PasswordPrompt("showSeedDialog", FALSE))
    /\ UNCHANGED <<flowVars, wallet, txVars, statusVars, deviceVars, recentVars, verified,
                   config, now, m_userLastActive, m_checkUserActivity, shown, enabled>>

\* showKeysDialog, showWalletCacheDebugDialog: verifyPassword comes first
showProtectedDialog(caller) ==
    /\ UserCanAct
    /\ dialogs' = Append(dialogs, PasswordPrompt(caller, FALSE))
    /\ UNCHANGED <<flowVars, wallet, txVars, statusVars, deviceVars, recentVars, verified,
                   config, now, m_userLastActive, m_checkUserActivity, shown, enabled>>

showKeysDialog == showProtectedDialog("showKeysDialog")

showWalletCacheDebugDialog == showProtectedDialog("showWalletCacheDebugDialog")

\* passwordDialog.exec() returns Rejected: verifyPassword returns false, and the caller
\* goes on (774, 794, 1023; 1661-1662 for the inactivity lock, whose close() runs closeEvent)
PasswordDialogRejected ==
    /\ window = "open"
    /\ dialogs # << >>
    /\ TopDialog.kind = "PasswordDialog"
    /\ verified' = [caller |-> TopDialog.caller, value |-> FALSE, ret |-> "Rejected",
                    entered |-> ""]
    /\ dialogs' = PopDialog
    /\ IF TopDialog.caller = "checkUserActivity"
          THEN /\ enabled' = FALSE
               /\ window' = "closed"
               /\ closedAt' = nChecks
               /\ m_txTimer' = FALSE
          ELSE UNCHANGED <<enabled, window, closedAt, m_txTimer>>
    /\ UNCHANGED <<os, appImageEnv, featherVersionStr, nChecks, replies, button, completeLog,
                   pc, cont, task, lastCheck, errorDialogs, appRunning, updateDialog,
                   wallet, txVars, statusBarVars, deviceVars, recentVars, config, now,
                   m_userLastActive, m_checkUserActivity, shown>>

\* passwordDialog.exec() returns Accepted with the password typed
PasswordDialogAccepted(password) ==
    /\ window = "open"
    /\ dialogs # << >>
    /\ TopDialog.kind = "PasswordDialog"
    /\ IF ~PasswordMatches(password)
          THEN /\ dialogs' = Append(PopDialog, PasswordPrompt(TopDialog.caller, TRUE))
               /\ UNCHANGED <<verified, shown, m_checkUserActivity>>
          ELSE /\ verified' = [caller |-> TopDialog.caller, value |-> TRUE,
                               ret |-> "Accepted", entered |-> password]
               /\ IF TopDialog.caller = "checkUserActivity"
                     THEN /\ dialogs' = PopDialog
                          /\ shown' = AllShown
                          /\ m_checkUserActivity' = TRUE
                     ELSE /\ dialogs' = Append(PopDialog,
                                 ModalDialog(DialogAfterPassword(TopDialog.caller),
                                             TopDialog.caller, ""))
                          /\ UNCHANGED <<shown, m_checkUserActivity>>
    /\ UNCHANGED <<flowVars, wallet, txVars, statusVars, deviceVars, recentVars, config, now,
                   m_userLastActive, enabled>>

\* the user closes the seed, keys or cache dialog or the information box on top
DialogClosed ==
    /\ window = "open"
    /\ dialogs # << >>
    /\ TopDialog.kind # "PasswordDialog"
    /\ dialogs' = PopDialog
    /\ UNCHANGED <<flowVars, wallet, txVars, statusVars, deviceVars, recentVars, verified,
                   config, now, m_userLastActive, m_checkUserActivity, shown, enabled>>

(***************************************************************************)
(* MainWindow::userActivity, MainWindow::checkUserActivity                 *)
(***************************************************************************)
userActivity ==
    /\ window = "open"
    /\ m_userLastActive' = now
    /\ UNCHANGED <<flowVars, wallet, txVars, statusVars, deviceVars, recentVars, dialogs,
                   verified, config, now, m_checkUserActivity, shown, enabled>>

ClockAdvances ==
    /\ now < MaxClockSteps * ClockStep
    /\ now' = now + ClockStep
    /\ UNCHANGED <<flowVars, wallet, txVars, statusVars, deviceVars, recentVars, dialogs,
                   verified, config, m_userLastActive, m_checkUserActivity, shown, enabled>>

\* m_checkUserActivity times out; the handler runs up to the exec() of the password prompt
checkUserActivity ==
    /\ window = "open"
    /\ m_checkUserActivity
    /\ IF /\ config.inactivityLockEnabled
          /\ ~m_constructingTransaction
          /\ InactivityTimeoutPassed(m_userLastActive, config.inactivityLockTimeout, now)
          THEN /\ m_checkUserActivity' = FALSE
               /\ shown' = AllHidden
               /\ dialogs' = Append(dialogs, PasswordPrompt("checkUserActivity", FALSE))
          ELSE UNCHANGED <<m_checkUserActivity, shown, dialogs>>
    /\ UNCHANGED <<flowVars, wallet, txVars, statusVars, deviceVars, recentVars, verified,
                   config, now, m_userLastActive, enabled>>

PasswordEntered == \E password \in EnteredPasswords : PasswordDialogAccepted(password)

NextLock ==
    \/ showSeedDialog
    \/ showKeysDialog
    \/ showWalletCacheDebugDialog
    \/ PasswordDialogRejected
    \/ PasswordEntered
    \/ DialogClosed
    \/ userActivity
    \/ ClockAdvances
    \/ checkUserActivity
    \/ onInitiateTransaction
    \/ onEndTransaction

LockWallets ==
    {PlainWallet,
     [PlainWallet EXCEPT !.password = ""],
     [PlainWallet EXCEPT !.isHwBacked = TRUE],
     [PlainWallet EXCEPT !.viewOnly = TRUE],
     [PlainWallet EXCEPT !.isDeterministic = FALSE]}

LockConfigs == [inactivityLockEnabled : BOOLEAN, inactivityLockTimeout : {0, 1}]

InitSpecLock ==
    /\ FlowAtRest
    /\ wallet \in LockWallets
    /\ InitTx
    /\ InitStatus
    /\ InitDevice
    /\ InitRecent
    /\ dialogs = << >>
    /\ verified = NotVerified
    /\ config \in LockConfigs
    /\ now = 0
    /\ m_userLastActive = 0
    /\ m_checkUserActivity = TRUE
    /\ shown = AllShown
    /\ enabled = TRUE

SpecLock == InitSpecLock /\ [][NextLock]_vars

(***************************************************************************)
(* MainWindow::onDeviceError, MainWindow::menuWalletCloseClicked           *)
(***************************************************************************)
\* QMessageBox::question offers Yes and No; closing the box counts as No
QuestionButtons == {"Yes", "No"}

\* as if the guard flag were not tested
DevicePromptSuppressed_Never == FALSE

\* line 1193
DevicePromptSuppressed == m_showDeviceError

\* the handler up to the first QMessageBox::question
onDeviceError ==
    /\ window = "open"
    /\ nDeviceErrors < MaxDeviceErrors
    /\ nDeviceErrors' = nDeviceErrors + 1
    /\ IF DevicePromptSuppressed
          THEN UNCHANGED <<m_showDeviceError, devicePrompts, hwDeviceIcon>>
          ELSE /\ hwDeviceIcon' = "unpaired"
               /\ m_showDeviceError' = TRUE
               /\ devicePrompts' = Append(devicePrompts, [attempt |-> 1])
    /\ UNCHANGED <<flowVars, wallet, txVars, statusVars, lockVars, recentVars, nRefreshes,
                   wizard>>

\* the question is answered; reconnected is what reconnectDevice() returns after Yes
DeviceQuestionAnswered(result, reconnected) ==
    /\ window = "open"
    /\ devicePrompts # << >>
    /\ LET prompt == devicePrompts[Len(devicePrompts)]
           outer  == SubSeq(devicePrompts, 1, Len(devicePrompts) - 1)
       IN  IF result = "Yes" /\ reconnected
              THEN /\ devicePrompts' = outer
                   /\ hwDeviceIcon' = "paired"
                   /\ nRefreshes' = nRefreshes + 1
                   /\ m_showDeviceError' = FALSE
                   /\ UNCHANGED <<wizard, window, closedAt, m_txTimer>>
           ELSE IF result = "No"
              THEN /\ devicePrompts' = outer
                   /\ wizard' = TRUE
                   /\ window' = "closed"
                   /\ closedAt' = nChecks
                   /\ m_txTimer' = FALSE
                   /\ UNCHANGED <<hwDeviceIcon, nRefreshes, m_showDeviceError>>
              ELSE /\ prompt.attempt < MaxAttempts
                   /\ m_showDeviceError' = TRUE
                   /\ devicePrompts' = Append(outer, [attempt |-> prompt.attempt + 1])
                   /\ UNCHANGED <<hwDeviceIcon, nRefreshes, wizard, window, closedAt,
                                  m_txTimer>>
    /\ UNCHANGED <<os, appImageEnv, featherVersionStr, nChecks, replies, button, completeLog,
                   pc, cont, task, lastCheck, errorDialogs, appRunning, updateDialog,
                   wallet, txVars, statusBarVars, lockVars, recentVars, nDeviceErrors>>

\* skinChanged, and the single-shot timer of the constructor (82)
updateWidgetIcons ==
    /\ window = "open"
    /\ hwDeviceIcon' = "paired"
    /\ UNCHANGED <<flowVars, wallet, txVars, statusVars, lockVars, recentVars,
                   m_showDeviceError, devicePrompts, nDeviceErrors, nRefreshes, wizard>>

DeviceQuestionClosed ==
    \E result \in QuestionButtons, reconnected \in BOOLEAN :
        DeviceQuestionAnswered(result, reconnected)

NextDevice ==
    \/ onDeviceError
    \/ DeviceQuestionClosed
    \/ updateWidgetIcons

InitSpecDevice ==
    /\ FlowAtRest
    /\ wallet = [PlainWallet EXCEPT !.isHwBacked = TRUE]
    /\ InitWindowState

SpecDevice == InitSpecDevice /\ [][NextDevice]_vars

(***************************************************************************)
(* MainWindow::addToRecentlyOpened, menuClearHistoryClicked,               *)
(* updateRecentlyOpenedMenu                                                *)
(***************************************************************************)
WalletPaths == {"/w/a.keys", "/w/b.keys", "/w/c.keys", "/w/d.keys", "/w/e.keys", "/w/f.keys"}

\* line 1595
MaxRecent == 5

\* Utils::fileExists
fileExists(file) == file \in files

\* as if an entry already listed were left where it is
removeOne_Kept(list, value) == list

\* QList::removeOne: the first occurrence of value is removed
removeOne(list, value) ==
    IF \E i \in 1..Len(list) : list[i] = value
       THEN LET first == CHOOSE i \in 1..Len(list) :
                            /\ list[i] = value
                            /\ \A j \in 1..(i - 1) : list[j] # value
            IN  SubSeq(list, 1, first - 1) \o SubSeq(list, first + 1, Len(list))
       ELSE list

\* the loop of lines 1588-1598 from position i on, recent_ collected so far
RECURSIVE CollectExisting(_, _, _)
CollectExisting(recent, i, recent_) ==
    IF i > Len(recent)
       THEN recent_
       ELSE LET next == IF fileExists(recent[i]) THEN Append(recent_, recent[i])
                                                 ELSE recent_
            IN  IF Len(next) >= MaxRecent THEN next
                                          ELSE CollectExisting(recent, i + 1, next)

\* QFileInfo::fileName: the part after the last slash (all paths lie in /w/)
fileName(path) == SubSeq(path, 4, Len(path))

\* updateRecentlyOpenedMenu: one entry per stored path, in the stored order
RecentlyOpenedMenu ==
    [i \in 1..Len(recentlyOpenedWallets) |-> fileName(recentlyOpenedWallets[i])]

addToRecentlyOpened(keysFile) ==
    /\ window = "open"
    /\ LET recent == <<keysFile>> \o removeOne(recentlyOpenedWallets, keysFile)
       IN  recentlyOpenedWallets' = CollectExisting(recent, 1, << >>)
    /\ UNCHANGED <<flowVars, wallet, txVars, statusVars, lockVars, deviceVars, files>>

menuClearHistoryClicked ==
    /\ window = "open"
    /\ recentlyOpenedWallets' = << >>
    /\ UNCHANGED <<flowVars, wallet, txVars, statusVars, lockVars, deviceVars, files>>

\* a wallet file is created, or deleted, outside the program
FileCreated(path) ==
    /\ path \notin files
    /\ files' = files \cup {path}
    /\ UNCHANGED <<flowVars, wallet, txVars, statusVars, lockVars, deviceVars,
                   recentlyOpenedWallets>>

FileDeleted(path) ==
    /\ path \in files
    /\ files' = files \ {path}
    /\ UNCHANGED <<flowVars, wallet, txVars, statusVars, lockVars, deviceVars,
                   recentlyOpenedWallets>>

WalletOpened == \E keysFile \in WalletPaths : addToRecentlyOpened(keysFile)

FilesChange == \E path \in WalletPaths : FileCreated(path) \/ FileDeleted(path)

NextRecent ==
    \/ WalletOpened
    \/ menuClearHistoryClicked
    \/ FilesChange

InitSpecRecent ==
    /\ FlowAtRest
    /\ wallet = PlainWallet
    /\ InitWindowState

SpecRecent == InitSpecRecent /\ [][NextRecent]_vars

(***************************************************************************)
(* Reference notions used by the properties, stated independently of the   *)
(* flow's own operators.                                                   *)
(***************************************************************************)
\* the binary filename expected for a version on a platform
ExpectedBinaryFilename(version, platformTag) ==
    "feather-" \o version \o "-" \o platformTag \o ".zip"

\* the manifest is well formed, signed by a known signer, and lists the name
ManifestVerifies(body, name) ==
    /\ body.wellFormed
    /\ body.sigValid
    /\ body.signer \in TrustedSigners
    /\ \E e \in body.entries : e[1] = name

ListedHash(body, name) == (CHOOSE e \in body.entries : e[1] = name)[2]

\* hex text of the hashes that manifests carry
HexText(hash) == IF hash = <<171, 205>> THEN "abcd" ELSE IF hash = <<0, 15>> THEN "000f" ELSE "?"

\* the reply whose continuation is suspended in the wait
WaitingReply == CHOOSE r \in replies : r.id = cont.reply

\* the name the suspended continuation has to look up
WaitingName == ExpectedBinaryFilename(WaitingReply.version, getPlatformTag)

VerificationDone == pc = "waiting" /\ task.status = "done"

(***************************************************************************)
(* C1: the update button is visible only after a manifest passed           *)
(* verification (known signer, valid signature, entry for the expected     *)
(* binary filename); it starts hidden, and every hash handed to            *)
(* onCheckUpdatesComplete is the hex text of the hash that the verified    *)
(* manifest lists for that filename.                                       *)
(***************************************************************************)
C1_ButtonState ==
    /\ button.visible => Len(completeLog) > 0
    /\ completeLog = << >> => button = InitialButton

C1_NotifyStep ==
    (completeLog' # completeLog \/ button' # button) =>
        /\ VerificationDone
        /\ ManifestVerifies(task.body, WaitingName)
        /\ Len(completeLog') = Len(completeLog) + 1
        /\ completeLog'[Len(completeLog')].hash = HexText(ListedHash(task.body, WaitingName))
        /\ button'.visible

C1_OnlyVerifiedHashSurfaced == []C1_ButtonState /\ [][C1_NotifyStep]_vars

C1_Witness ==
    /\ button.visible
    /\ lastCheck.state = "VerifiedReady"
    /\ completeLog[Len(completeLog)].hash = "abcd"

(***************************************************************************)
(* C2: when the fetched manifest does not verify (malformed, unknown       *)
(* signer, bad signature, no entry for the expected filename), the         *)
(* exception is caught, onCheckUpdatesComplete is not called, the button   *)
(* is untouched and the check ends Aborted.                                *)
(***************************************************************************)
C2_RejectStep ==
    (pc = "waiting" /\ ~ManifestVerifies(task.body, WaitingName)) =>
        /\ completeLog' = completeLog
        /\ button' = button
        /\ appRunning'
        /\ pc' = "idle" => /\ lastCheck'.id = cont.reply
                           /\ lastCheck'.state = "Aborted"
                           /\ lastCheck'.reason = "VerificationFailure"

C2_FailedVerificationAborts == [][C2_RejectStep]_vars

C2_Witness ==
    /\ pc = "idle"
    /\ lastCheck.state = "Aborted"
    /\ lastCheck.reason = "VerificationFailure"
    /\ lastCheck.what = "unknown signer"
    /\ completeLog = << >>
    /\ ~button.visible

(***************************************************************************)
(* C3: a fetched manifest that verifies for the expected filename yields   *)
(* exactly one onCheckUpdatesComplete call for that check, carrying the    *)
(* announced version, the expected filename, the listed hash in hex and    *)
(* the manifest's signer.                                                  *)
(***************************************************************************)
C3_OneCallPerCheck ==
    \A i, j \in 1..Len(completeLog) : i # j => completeLog[i].check # completeLog[j].check

C3_AcceptStep ==
    (VerificationDone /\ ManifestVerifies(task.body, WaitingName)) =>
        /\ completeLog' = Append(completeLog,
                                 [check |-> cont.reply,
                                  version |-> WaitingReply.version,
                                  binaryFilename |-> WaitingName,
                                  hash |-> HexText(ListedHash(task.body, WaitingName)),
                                  signer |-> task.body.signer])
        /\ lastCheck'.id = cont.reply
        /\ lastCheck'.state = "VerifiedReady"

C3_VerifiedUpdateProduced == []C3_OneCallPerCheck /\ [][C3_AcceptStep]_vars

C3_Witness ==
    /\ featherVersionStr = "1.2.0"
    /\ lastCheck.state = "VerifiedReady"
    /\ Len(completeLog) = 1
    /\ completeLog[1] = [check |-> lastCheck.id, version |-> "1.3.0-beta",
                         binaryFilename |-> "feather-1.3.0-beta-linux.zip",
                         hash |-> "000f", signer |-> "maintainer"]

(***************************************************************************)
(* Reference notions for the feed payload and the version order            *)
(***************************************************************************)
\* the objects a payload carries under "platform" for a tag (none or one)
FeedPlatformEntries(updates, platformTag) ==
    {q[2] : q \in {q \in UNION {p[2] : p \in {p \in updates : p[1] = "platform"}} :
                      q[1] = platformTag}}

FeedHasPlatform(updates, platformTag) == FeedPlatformEntries(updates, platformTag) # {}

\* the version strings announced for a tag (none or one)
AnnouncedVersions(updates, platformTag) ==
    {x[2] : x \in {x \in UNION FeedPlatformEntries(updates, platformTag) : x[1] = "version"}}

\* semantic-version precedence of the versions used here, lowest first
VersionDomain == ParseableVersions \cup {"1.2.10", "1.3.0-alpha", "2.0.0"}

SemverRank(v) ==
    CASE v = "1.1.9"       -> 1
      [] v = "1.2.0"       -> 2
      [] v = "1.2.10"      -> 3
      [] v = "1.3.0-alpha" -> 4
      [] v = "1.3.0-beta"  -> 5
      [] v = "1.3.0"       -> 6
      [] v = "1.10.0"      -> 7
      [] v = "2.0.0"       -> 8

\* what ending a check without any effect looks like, for the check started by this step
AbortsSilently ==
    /\ replies' = replies
    /\ button' = button
    /\ completeLog' = completeLog
    /\ errorDialogs' = errorDialogs
    /\ appRunning'
    /\ pc' = "idle"
    /\ lastCheck'.id = nChecks'
    /\ lastCheck'.state = "Aborted"

(***************************************************************************)
(* C4: on a build whose platform tag is empty no request is ever issued    *)
(* and the button is never touched, whatever the payloads contain.         *)
(***************************************************************************)
C4_UnsupportedPlatformIsNoOp ==
    getPlatformTag = "" =>
        /\ replies = {}
        /\ button = InitialButton
        /\ completeLog = << >>
        /\ pc = "idle"
        /\ task = NoTask
        /\ nChecks > 0 => lastCheck.state = "Aborted" /\ lastCheck.reason = "UnsupportedPlatform"

C4_Witness ==
    /\ getPlatformTag = ""
    /\ nChecks = 2
    /\ lastCheck.id = 2
    /\ lastCheck.keyed
    /\ lastCheck.reason = "UnsupportedPlatform"

(***************************************************************************)
(* C5: a payload without an entry for the current platform tag issues no   *)
(* request and the check aborts silently: a step that starts a check       *)
(* either aborts silently as FeedDataMissing or is not the handling of     *)
(* such a payload.                                                         *)
(***************************************************************************)
C5_MissingPlatformStep ==
    nChecks' # nChecks =>
        \/ AbortsSilently /\ lastCheck'.reason = "FeedDataMissing"
        \/ \A updates \in Feeds :
              (getPlatformTag # "" /\ ~FeedHasPlatform(updates, getPlatformTag))
              => ~onUpdatesAvailable(updates)

C5_MissingPlatformAborts == [][C5_MissingPlatformStep]_vars

C5_Witness ==
    /\ getPlatformTag = "linux"
    /\ lastCheck.id = nChecks
    /\ ~lastCheck.keyed
    /\ lastCheck.reason = "FeedDataMissing"
    /\ replies = {}

(***************************************************************************)
(* C6: a candidate version less than or equal to the running version       *)
(* aborts the check: no request, no notification.  A step that starts a    *)
(* check either aborts silently as VersionNotNewer or is not the handling  *)
(* of a payload announcing such a version.                                 *)
(***************************************************************************)
C6_NotNewerStep ==
    nChecks' # nChecks =>
        \/ AbortsSilently /\ lastCheck'.reason = "VersionNotNewer"
        \/ \A updates \in Feeds :
              (/\ getPlatformTag # ""
               /\ \E v \in AnnouncedVersions(updates, getPlatformTag) :
                     /\ v \in ParseableVersions
                     /\ SemverRank(v) <= SemverRank(featherVersionStr))
              => ~onUpdatesAvailable(updates)

C6_NotNewerAborts == [][C6_NotNewerStep]_vars

C6_Witness ==
    /\ featherVersionStr = "1.2.0"
    /\ lastCheck.id = nChecks
    /\ lastCheck.reason = "VersionNotNewer"
    /\ lastCheck.newVersion = "1.1.9"
    /\ replies = {}
    /\ ~button.visible

(***************************************************************************)
(* C7: the comparison the flow uses is a strict total order that agrees    *)
(* with semantic-version precedence: a above b makes a newer than b and    *)
(* b not newer than a, and no version is newer than itself.  Every check   *)
(* that got as far as the comparison went on exactly when the announced    *)
(* version ranks above the running one.                                    *)
(***************************************************************************)
isNewer(a, b) == ~VersionNotNewer(a, b)

C7_Pairs ==
    \A a, b \in VersionDomain :
        /\ SemverRank(a) > SemverRank(b) => isNewer(a, b) /\ ~isNewer(b, a)
        /\ a = b => ~isNewer(a, b)

C7_FlowFollowsOrder ==
    /\ \A r \in replies : r.version \in ParseableVersions =>
           SemverRank(r.version) > SemverRank(featherVersionStr)
    /\ (lastCheck.newVersion \in ParseableVersions /\ lastCheck.reason # "FeedDataMissing"
        /\ lastCheck.reason # "UnsupportedPlatform" /\ lastCheck.id > 0) =>
           (lastCheck.reason = "VersionNotNewer"
            <=> SemverRank(lastCheck.newVersion) <= SemverRank(featherVersionStr))

C7_ComparisonIsStrictTotalOrder == C7_Pairs /\ C7_FlowFollowsOrder

C7_Witness ==
    /\ featherVersionStr = "1.3.0-beta"
    /\ \E r \in replies : r.version = "1.3.0" /\ r.status = "pending"
    /\ lastCheck.reason = "VersionNotNewer"
    /\ lastCheck.newVersion = "1.3.0-beta"

(***************************************************************************)
(* C8: a platform entry whose version is missing, empty or not a semantic  *)
(* version is treated as no update: no request is issued.  A step that     *)
(* starts a check either aborts silently or is not the handling of a       *)
(* payload with such an entry.                                             *)
(***************************************************************************)
C8_UnparseableStep ==
    nChecks' # nChecks =>
        \/ AbortsSilently
        \/ \A updates \in Feeds :
              (/\ getPlatformTag # ""
               /\ FeedHasPlatform(updates, getPlatformTag)
               /\ AnnouncedVersions(updates, getPlatformTag) \cap ParseableVersions = {})
              => ~onUpdatesAvailable(updates)

C9_ErrorRepliesUnread ==
    \A r \in replies :
        (r.status = "finished" /\ r.error # "NoError") => ~r.bodyRead /\ ~r.deleteLater

C9_FetchErrorStep ==
    replies' # replies => \A r \in replies, outcome \in ReplyOutcomes :
        (onSignedHashesReceived(r, outcome[1], outcome[2]) /\ outcome[1] # "NoError") =>
            /\ button' = button
            /\ completeLog' = completeLog
            /\ task' = task
            /\ pc' = "idle"
            /\ appRunning'
            /\ lastCheck'.id = r.id
            /\ lastCheck'.state = "Aborted"
            /\ lastCheck'.reason = "NetworkFailure"
            /\ \E f \in replies' : f.id = r.id /\ f.body = outcome[2] /\ ~f.bodyRead

C9_FetchErrorAborts == []C9_ErrorRepliesUnread /\ [][C9_FetchErrorStep]_vars

C9_Witness ==
    /\ lastCheck.reason = "NetworkFailure"
    /\ \E r \in replies : /\ r.id = lastCheck.id
                          /\ r.error = "ContentNotFoundError"
                          /\ r.body = ValidManifest
                          /\ r.version = "1.3.0-beta"
                          /\ r.platformTag = "linux"
    /\ completeLog = << >>
    /\ ~button.visible

(***************************************************************************)
(* C10: every failure is silent and non-fatal: no error dialog, the        *)
(* application keeps running, a check that ends Aborted leaves the button  *)
(* and the notification log as they were, and the button only ever shows   *)
(* nothing or the update-available affordance.                             *)
(***************************************************************************)
FailureReasons == {"UnsupportedPlatform", "FeedDataMissing", "VersionNotNewer",
                   "NetworkFailure", "VerificationFailure"}

C10_OnlyAffordance ==
    /\ errorDialogs = 0
    /\ appRunning
    /\ lastCheck.state = "Aborted" => lastCheck.reason \in FailureReasons
    /\ \/ button = InitialButton
       \/ /\ button.visible
          /\ Len(completeLog) > 0
          /\ button.text = "Update to Feather "
                           \o ReplaceAll(completeLog[Len(completeLog)].version, "beta", "Beta")
                           \o " is available"

C10_AbortStep ==
    (lastCheck' # lastCheck /\ lastCheck'.state = "Aborted") =>
        /\ button' = button
        /\ completeLog' = completeLog
        /\ errorDialogs' = errorDialogs
        /\ appRunning'

C10_FailuresAreSilent == []C10_OnlyAffordance /\ [][C10_AbortStep]_vars

C10_Witness ==
    /\ button.visible
    /\ button.text = "Update to Feather 1.3.0-Beta is available"
    /\ lastCheck.state = "Aborted"
    /\ lastCheck.reason = "VerificationFailure"
    /\ lastCheck.what = "bad signature"
    /\ appRunning

(***************************************************************************)
(* Position of a check in the flow's state machine, read off the live      *)
(* objects: a check is Idle before its feed event, in flight while its     *)
(* request is pending or its continuation is suspended, terminal after.    *)
(***************************************************************************)
CheckPhase(id) ==
    IF id > nChecks THEN "Idle"
    ELSE IF \E r \in replies : r.id = id /\ r.status = "pending" THEN "HashFetchInFlight"
    ELSE IF pc = "waiting" /\ cont.reply = id THEN "HashFetchInFlight"
    ELSE "Terminal"

StaleReasons == {"UnsupportedPlatform", "FeedDataMissing", "VersionNotNewer"}

FetchReasons == {"NetworkFailure", "VerificationFailure"}

(***************************************************************************)
(* C11: a check moves only Idle -> (feed event: compared) -> stale and     *)
(* Aborted, or newer and HashFetchInFlight -> VerifiedReady or Aborted.    *)
(* A terminal check stays terminal: nothing retries it, and a request is   *)
(* only ever issued by the step that handles a new feed event.             *)
(***************************************************************************)
C11_Terminal ==
    /\ \A r \in replies : r.id \in 1..nChecks
    /\ \A r, q \in replies : r.id = q.id => r = q
    /\ lastCheck.id > 0 =>
          /\ CheckPhase(lastCheck.id) = "Terminal"
          /\ lastCheck.state \in {"Aborted", "VerifiedReady"}

C11_TransitionStep ==
    /\ \A id \in 1..MaxChecks :
          CheckPhase(id)' # CheckPhase(id) =>
              \/ /\ CheckPhase(id) = "Idle"
                 /\ nChecks' = nChecks + 1
                 /\ id = nChecks'
                 /\ \/ /\ CheckPhase(id)' = "HashFetchInFlight"
                       /\ lastCheck' = lastCheck
                    \/ /\ CheckPhase(id)' = "Terminal"
                       /\ lastCheck'.id = id
                       /\ lastCheck'.state = "Aborted"
                       /\ lastCheck'.reason \in StaleReasons
              \/ /\ CheckPhase(id) = "HashFetchInFlight"
                 /\ CheckPhase(id)' = "Terminal"
                 /\ nChecks' = nChecks
                 /\ lastCheck'.id = id
                 /\ \/ lastCheck'.state = "VerifiedReady"
                    \/ lastCheck'.state = "Aborted" /\ lastCheck'.reason \in FetchReasons
    /\ \A r \in replies' :
          (r.status = "pending" /\ r \notin replies) => nChecks' = nChecks + 1 /\ r.id = nChecks'
    /\ lastCheck' # lastCheck => CheckPhase(lastCheck'.id) # "Terminal"

C11_StateMachine == []C11_Terminal /\ [][C11_TransitionStep]_vars

C11_Witness ==
    /\ nChecks = 2
    /\ \E r \in replies : r.id = 1 /\ r.status = "finished" /\ r.error # "NoError"
    /\ lastCheck.id = 2
    /\ lastCheck.state = "VerifiedReady"
    /\ CheckPhase(1) = "Terminal"

(***************************************************************************)
(* C12: a check that goes on to fetch issues exactly one request, a GET of *)
(* <host>/files/releases/hashes-<version>-plain.txt for the version the    *)
(* payload announces under the current platform tag; a step that issues a  *)
(* request is not the handling of a payload announcing another version.    *)
(***************************************************************************)
ManifestPath(version) == "/files/releases/hashes-" \o version \o "-plain.txt"

C12_RequestsWellFormed ==
    /\ \A r \in replies : r.url = websiteUrl \o ManifestPath(r.version)
    /\ \A id \in 1..MaxChecks :
          CheckPhase(id) = "HashFetchInFlight" => Cardinality({r \in replies : r.id = id}) = 1

C12_IssueStep ==
    nChecks' # nChecks =>
        /\ Cardinality(replies' \ replies) <= 1
        /\ \A r \in replies' \ replies :
              /\ r.id = nChecks'
              /\ r.status = "pending"
              /\ CheckPhase(r.id)' = "HashFetchInFlight"
              /\ \A updates \in Feeds :
                    r.version \notin AnnouncedVersions(updates, getPlatformTag)
                    => ~onUpdatesAvailable(updates)
        /\ \A id \in 1..MaxChecks :
              (id = nChecks' /\ CheckPhase(id)' = "HashFetchInFlight")
              => Cardinality(replies' \ replies) = 1

C12_OneRequestPerFetch == []C12_RequestsWellFormed /\ [][C12_IssueStep]_vars

C12_Witness ==
    /\ featherVersionStr = "1.2.0"
    /\ getPlatformTag = "linux"
    /\ nChecks = 1
    /\ replies = {[id |-> 1,
                   url |-> "https://featherwallet.org/files/releases/hashes-1.3.0-beta-plain.txt",
                   platformTag |-> "linux", version |-> "1.3.0-beta", status |-> "pending",
                   error |-> "NoError", body |-> EmptyBody, bodyRead |-> FALSE,
                   deleteLater |-> FALSE]}

(***************************************************************************)
(* C13: the name looked up in the manifest is feather-<version>-<tag>.zip  *)
(* for the version and platform tag bound to the request, whatever else    *)
(* the payload or the manifest holds; checks of the same version on the    *)
(* same platform look up, and report, the same name.                       *)
(***************************************************************************)
C13_LookupName ==
    pc = "waiting" =>
        /\ task.name = ExpectedBinaryFilename(WaitingReply.version, WaitingReply.platformTag)
        /\ cont.binaryFilename = task.name
        /\ \A i \in 1..Len(completeLog) :
              completeLog[i].version = WaitingReply.version
              => completeLog[i].binaryFilename = task.name

C13_ReportedName ==
    /\ \A i \in 1..Len(completeLog) :
          completeLog[i].binaryFilename
              = ExpectedBinaryFilename(completeLog[i].version, getPlatformTag)
    /\ \A i, j \in 1..Len(completeLog) :
          completeLog[i].version = completeLog[j].version
          => completeLog[i].binaryFilename = completeLog[j].binaryFilename

C13_FilenameIsDeterministic == C13_LookupName /\ C13_ReportedName

C13_Witness ==
    /\ Len(completeLog) = 2
    /\ completeLog[1].version = completeLog[2].version
    /\ completeLog[1].binaryFilename = "feather-1.3.0-beta-linux.zip"
    /\ completeLog[2].binaryFilename = "feather-1.3.0-beta-linux.zip"
    /\ completeLog[1].hash # completeLog[2].hash

(***************************************************************************)
(* Reference notions for addresses                                         *)
(***************************************************************************)
ReleasesPath == "/files/releases/"

SupportedTags == {"mac", "win", "win-installer", "linux", "linux-appimage"}

(***************************************************************************)
(* C14: every UpdateDialog is opened with the data of a verified update    *)
(* and a download address <host>/files/releases/<platform>/<filename>:     *)
(* the host is the one manifests are fetched from, and platform and        *)
(* filename are the tag and the filename of that verified update.          *)
(***************************************************************************)
C14_FetchHost == \A r \in replies : r.url = websiteUrl \o ManifestPath(r.version)

C14_DialogUrl ==
    updateDialog # NoDialog =>
        \E i \in 1..Len(completeLog), tag \in SupportedTags :
            /\ updateDialog.version = completeLog[i].version
            /\ updateDialog.hash = completeLog[i].hash
            /\ updateDialog.signer = completeLog[i].signer
            /\ completeLog[i].binaryFilename
                   = ExpectedBinaryFilename(completeLog[i].version, tag)
            /\ updateDialog.downloadUrl
                   = websiteUrl \o ReleasesPath \o tag \o "/" \o completeLog[i].binaryFilename

OutstandingAtClose(id) == window # "open" /\ id <= closedAt

C15_ContinuationStep ==
    (pc = "waiting" /\ OutstandingAtClose(cont.reply)) =>
        /\ button' = button
        /\ completeLog' = completeLog

C15_TornDownWindowUntouched == [][C15_ContinuationStep]_vars

(***************************************************************************)
(* C16: the completion of a request runs onSignedHashesReceived once, for  *)
(* that request alone and with the platform tag and version the request    *)
(* was issued for, also while other requests are outstanding: one reply    *)
(* finishes per step, the others stay as they are, the name looked up is   *)
(* the one of the finished reply, and a finished reply is not handled      *)
(* again.                                                                  *)
(***************************************************************************)
JustFinished == {r \in replies : r.status = "pending" /\ r \notin replies'}

C16_DeliveryStep ==
    /\ Cardinality(JustFinished) <= 1
    /\ \A r \in JustFinished :
          /\ r.url = websiteUrl \o ManifestPath(r.version)
          /\ \A q \in replies \ {r} : q \in replies'
          /\ \E f \in replies' : f.id = r.id /\ f.status = "finished"
          /\ \/ /\ pc' = "waiting"
                /\ cont'.reply = r.id
                /\ task'.status = "queued"
                /\ task'.name = ExpectedBinaryFilename(r.version, r.platformTag)
                /\ lastCheck' = lastCheck
             \/ /\ pc' = "idle"
                /\ task' = task
                /\ lastCheck'.id = r.id
                /\ lastCheck'.newVersion = r.version
                /\ lastCheck'.platformTag = r.platformTag
    /\ \A r \in replies :
          r.status = "finished" =>
              \/ r \in replies'
              \/ /\ pc = "waiting" /\ cont.reply = r.id
                 /\ \A q \in replies' : q.id # r.id
    /\ (pc = "idle" /\ pc' = "waiting") => JustFinished # {}

C16_OneContinuationPerRequest == [][C16_DeliveryStep]_vars

C16_Witness ==
    /\ pc = "waiting"
    /\ cont.reply = 1
    /\ task.name = "feather-1.3.0-beta-linux.zip"
    /\ \E r \in replies : r.id = 2 /\ r.status = "pending" /\ r.version = "1.10.0"
    /\ \E r \in replies : r.id = 1 /\ r.status = "finished" /\ r.version = "1.3.0-beta"

(***************************************************************************)
(* C17: when every issued request completes and the worker finishes its    *)
(* task, every check that was started reaches a terminal state: none       *)
(* stays in HashFetchInFlight forever, and a suspended continuation        *)
(* resumes.  (The number of started checks only grows, so a started check  *)
(* that is terminal again and again has become terminal.)                  *)
(***************************************************************************)
C17_EveryCheckTerminates ==
    /\ \A id \in 1..MaxChecks : []<>(nChecks >= id => CheckPhase(id) = "Terminal")
    /\ []<>(pc = "idle")

C17_Witness ==
    /\ nChecks = 2
    /\ CheckPhase(1) = "Terminal"
    /\ CheckPhase(2) = "Terminal"
    /\ Len(completeLog) = 1
    /\ completeLog[1].check = 1
    /\ lastCheck.id = 2
    /\ lastCheck.reason = "VerificationFailure"
    /\ \A r \in replies : r.status = "finished"

(***************************************************************************)
(* C18: getPlatformTag yields "mac", "win", "win-installer", "linux",      *)
(* "linux-appimage" or the empty string, and the tag onShowUpdateCheck     *)
(* puts into the download address is the tag the filename of that update   *)
(* was built with.                                                         *)
(***************************************************************************)
C18_TagEnumerated ==
    /\ getPlatformTag \in {"mac", "win", "win-installer", "linux", "linux-appimage", ""}
    /\ \A r \in replies : r.platformTag = getPlatformTag /\ r.platformTag # ""

C18_SameTag ==
    updateDialog # NoDialog =>
        \E i \in 1..Len(completeLog) :
            /\ updateDialog.version = completeLog[i].version
            /\ completeLog[i].binaryFilename
                   = "feather-" \o completeLog[i].version \o "-" \o updateDialog.platformTag
                     \o ".zip"
            /\ updateDialog.downloadUrl
                   = "https://featherwallet.org/files/releases/" \o updateDialog.platformTag
                     \o "/" \o completeLog[i].binaryFilename

C18_PlatformTagConsistent == C18_TagEnumerated /\ C18_SameTag

C18_Witness ==
    /\ os = "macos"
    /\ updateDialog.platformTag = "mac"
    /\ updateDialog.downloadUrl
           = "https://featherwallet.org/files/releases/mac/feather-1.10.0-mac.zip"
    /\ \E i \in 1..Len(completeLog) : completeLog[i].binaryFilename = "feather-1.10.0-mac.zip"

(***************************************************************************)
(* C19: the verification runs on the worker while the continuation is      *)
(* suspended, and the continuation goes on only after the worker has       *)
(* finished: before that it reads neither hash nor signer and does not     *)
(* call onCheckUpdatesComplete, and what it then uses is what the worker   *)
(* wrote.                                                                  *)
(***************************************************************************)
WorkerPending == task.status = "queued"

C19_WorkerState ==
    /\ task.status # "none" => pc = "waiting"
    /\ WorkerPending => cont.signer = "" /\ task.signedHash = EmptyBytes

C19_WaitStep ==
    /\ WorkerPending =>
          /\ pc' = "waiting"
          /\ button' = button
          /\ completeLog' = completeLog
          /\ lastCheck' = lastCheck
          /\ task' # task => /\ task'.status = "done"
                              /\ cont'.signer = verifyParseSignedHashes(task.body, task.name).signer
    /\ completeLog' # completeLog =>
          /\ task.status = "done"
          /\ completeLog'[Len(completeLog')].signer = cont.signer
          /\ completeLog'[Len(completeLog')].signer = task.body.signer
          /\ completeLog'[Len(completeLog')].hash = toHex(task.signedHash)

C19_ContinuationWaitsForWorker == []C19_WorkerState /\ [][C19_WaitStep]_vars

C19_Witness ==
    /\ pc = "waiting"
    /\ task.status = "done"
    /\ task.signedHash = <<171, 205>>
    /\ cont.signer = "maintainer"
    /\ completeLog = << >>
    /\ ~button.visible

(***************************************************************************)
(* C20: while the continuation waits for the worker, the wait is on a      *)
(* call path other than the UI thread and UI events are still handled:     *)
(* the window can be closed and its visible button clicked before the      *)
(* verification completes.                                                 *)
(***************************************************************************)
C20_UiNotBlockedByWait ==
    pc = "waiting" =>
        /\ ContinuationThread # UiThread
        /\ window = "open" => ENABLED closeEvent
        /\ (window = "open" /\ button.visible) => ENABLED ButtonClicked

(***************************************************************************)
(* C21: at most one check is in flight at any time: a feed event handled   *)
(* while the request or the verification of an earlier check is            *)
(* outstanding puts no second request in flight.                           *)
(***************************************************************************)
ChecksInFlight == {id \in 1..MaxChecks : CheckPhase(id) = "HashFetchInFlight"}

C21_AtMostOneCheckInFlight == Cardinality(ChecksInFlight) <= 1

(***************************************************************************)
(* C22: after any number of successful checks the button has exactly one   *)
(* click handler, holding version, filename, hash and signer of the        *)
(* verification completed last; a click opens the dialog with these        *)
(* values and with no earlier check's.                                     *)
(***************************************************************************)
LastVerified == completeLog[Len(completeLog)]

C22_OneHandler ==
    button.visible =>
        /\ Len(button.handlers) = 1
        /\ Len(completeLog) > 0
        /\ button.handlers[1] = [version |-> LastVerified.version,
                                 binaryFilename |-> LastVerified.binaryFilename,
                                 hash |-> LastVerified.hash,
                                 signer |-> LastVerified.signer]

C22_ClickStep ==
    updateDialog' # updateDialog =>
        /\ Len(button.handlers) = 1
        /\ updateDialog'.version = LastVerified.version
        /\ updateDialog'.hash = LastVerified.hash
        /\ updateDialog'.signer = LastVerified.signer
        /\ updateDialog'.downloadUrl
               = "https://featherwallet.org/files/releases/" \o getPlatformTag \o "/"
                 \o LastVerified.binaryFilename

C22_SingleClickHandler == []C22_OneHandler /\ [][C22_ClickStep]_vars

C22_Witness ==
    /\ Len(completeLog) = 2
    /\ completeLog[1].hash = "000f"
    /\ completeLog[2].hash = "abcd"
    /\ updateDialog.hash = "abcd"
    /\ Len(button.handlers) = 1

(***************************************************************************)
(* C23: every reply is scheduled for deletion by the time its completion   *)
(* callback has returned, on the error path as on the success path: no     *)
(* finished reply stays allocated without deleteLater.                     *)
(***************************************************************************)
C23_FinishedRepliesScheduledForDeletion ==
    \A r \in replies : r.status = "finished" => r.deleteLater

(***************************************************************************)
(* C24: onCreateTransactionSuccess commits a transaction only if its       *)
(* status is Ok, it consists of exactly one transaction, its outputs pay   *)
(* every requested destination (addresses compared as standard addresses), *)
(* there is a single destination, the wallet is not view-only and the user *)
(* accepted the confirmation dialog; when one of the three validations     *)
(* fails the transaction is disposed and not committed.                    *)
(***************************************************************************)
C24_PaysEveryDestination ==
    \A i \in 1..Len(txResult.address) :
        \E o \in txResult.tx.outputs :
            baseAddressFromIntegratedAddress(o)
                = baseAddressFromIntegratedAddress(txResult.address[i])

C24_Valid ==
    /\ txResult.tx.status = "Status_Ok"
    /\ txResult.tx.txCount = 1
    /\ C24_PaysEveryDestination

C24_CommitGuarded ==
    txResult.committed =>
        /\ C24_Valid
        /\ Len(txResult.address) = 1
        /\ ~wallet.viewOnly
        /\ txResult.confDialog = "Accepted"

C24_InvalidDisposed ==
    (txResult.phase # "none" /\ ~C24_Valid) =>
        /\ txResult.phase = "returned"
        /\ txResult.disposed
        /\ ~txResult.committed
        /\ txResult.confDialog = "none"

C27_LabelFree == overrideTimers = {} /\ ~m_constructingTransaction

C27_LabelShowsLatestStatus ==
    (lastStatus.called /\ C27_LabelFree) => m_statusLabelStatus = lastStatus.text

C27_Witness ==
    /\ C27_LabelFree
    /\ nOverrides = 1
    /\ m_statusDots = 2
    /\ lastStatus.text = "Disconnected"
    /\ m_statusLabelStatus = "Disconnected"
    /\ lastOverride = "Saved"

(***************************************************************************)
(* C28: the text of an override call stays on the label until that call's  *)
(* timer fires; no call without override, no timer of an earlier override  *)
(* and no tick of the transaction ticker replaces it.                      *)
(***************************************************************************)
C28_OverrideTextStays ==
    nOverrides \in overrideTimers => m_statusLabelStatus = lastOverride

(***************************************************************************)
(* C25: the seed, keys and wallet-cache debug dialogs are opened only      *)
(* after verifyPassword returned true; verifyPassword returns true only if *)
(* the password of the last prompt is the wallet's password, and false     *)
(* only if the prompt was rejected; the seed dialog is never opened for a  *)
(* hardware-backed, view-only or non-deterministic wallet.                 *)
(***************************************************************************)
ProtectedDialogs == {"SeedDialog", "KeysDialog", "WalletCacheDebugDialog"}

C25_Opened(kind) ==
    Cardinality({i \in 1..Len(dialogs) : dialogs[i].kind = kind})

C25_OpenStep ==
    \A kind \in ProtectedDialogs :
        C25_Opened(kind)' > C25_Opened(kind) =>
            /\ dialogs # << >>
            /\ TopDialog.kind = "PasswordDialog"
            /\ verified'.value
            /\ verified'.ret = "Accepted"
            /\ DialogAfterPassword(verified'.caller) = kind
            /\ DialogAfterPassword(TopDialog.caller) = kind

C25_ReturnValue ==
    /\ verified.value => (verified.ret = "Accepted" /\ verified.entered = wallet.password)
    /\ (verified.caller # "none" /\ ~verified.value) => verified.ret = "Rejected"

C25_ReturnStep ==
    verified' # verified =>
        /\ dialogs # << >>
        /\ TopDialog.kind = "PasswordDialog"
        /\ verified'.caller = TopDialog.caller
        /\ Len(dialogs') <= Len(dialogs)

C25_SeedOnlyForSeedWallets ==
    C25_Opened("SeedDialog") > 0 =>
        (~wallet.isHwBacked /\ ~wallet.viewOnly /\ wallet.isDeterministic)

C25_PasswordGuardsDialogs ==
    /\ [](C25_ReturnValue /\ C25_SeedOnlyForSeedWallets)
    /\ [][C25_OpenStep /\ C25_ReturnStep]_vars

C25_Witness ==
    /\ Len(dialogs) = 1
    /\ dialogs[1].kind = "WalletCacheDebugDialog"
    /\ verified.caller = "showWalletCacheDebugDialog"
    /\ verified.entered = ""
    /\ wallet.password = ""

(***************************************************************************)
(* C26: the inactivity lock triggers only if it is enabled, no transaction *)
(* is being constructed and the last activity is older than the timeout;   *)
(* while its prompt is open the activity timer is stopped and there is one *)
(* lock prompt at most; tabs, status bar and menu bar are shown and the    *)
(* timer restarted only when the wallet's password was entered; when the   *)
(* prompt is rejected the window is disabled and closed and the hidden     *)
(* widgets stay hidden.                                                    *)
(***************************************************************************)
LockPrompts ==
    Cardinality({i \in 1..Len(dialogs) : dialogs[i].caller = "checkUserActivity"})

C26_TriggerStep ==
    LockPrompts' > LockPrompts =>
        /\ config.inactivityLockEnabled
        /\ ~m_constructingTransaction
        /\ now - m_userLastActive > config.inactivityLockTimeout * 60
        /\ m_checkUserActivity
        /\ ~m_checkUserActivity'
        /\ shown' = AllHidden

C26_Locked ==
    /\ LockPrompts <= 1
    /\ LockPrompts = 1 => (~m_checkUserActivity /\ shown = AllHidden)
    /\ shown \in {AllShown, AllHidden}
    /\ (shown = AllHidden) = (~m_checkUserActivity)

C26_UnlockStep ==
    (shown' # shown /\ shown' # AllHidden) \/ (m_checkUserActivity' /\ ~m_checkUserActivity) =>
        /\ LockPrompts = 1
        /\ LockPrompts' = 0
        /\ verified' = [caller |-> "checkUserActivity", value |-> TRUE, ret |-> "Accepted",
                        entered |-> wallet.password]
        /\ shown' = AllShown
        /\ m_checkUserActivity'

C26_RejectStep ==
    (LockPrompts' < LockPrompts /\ ~verified'.value) =>
        /\ verified'.ret = "Rejected"
        /\ ~enabled'
        /\ window' = "closed"
        /\ shown' = AllHidden

C26_ClosedStaysHidden ==
    window = "closed" => (~enabled /\ shown = AllHidden /\ ~m_checkUserActivity)

C26_InactivityLock ==
    /\ [](C26_Locked /\ C26_ClosedStaysHidden)
    /\ [][C26_TriggerStep /\ C26_UnlockStep /\ C26_RejectStep]_vars

C26_Witness ==
    /\ window = "closed"
    /\ config.inactivityLockTimeout = 1
    /\ Len(dialogs) = 1
    /\ dialogs[1].kind = "KeysDialog"
    /\ m_constructingTransaction
    /\ now = 90

(***************************************************************************)
(* C29: while a lost-device question is open, further deviceError signals  *)
(* open no other; the question is repeated until a reconnect succeeds      *)
(* (the paired icon is set, the refresh restarted and the guard flag       *)
(* cleared, so that a later device error asks again) or the user answers   *)
(* No (the wallet window is closed).                                       *)
(***************************************************************************)
C29_OneQuestion ==
    /\ Len(devicePrompts) <= 1
    /\ devicePrompts # << >> => m_showDeviceError
    /\ (m_showDeviceError /\ window = "open") => devicePrompts # << >>

C29_SignalStep ==
    nDeviceErrors' = nDeviceErrors + 1 =>
        IF devicePrompts # << >>
           THEN devicePrompts' = devicePrompts
           ELSE /\ devicePrompts' = <<[attempt |-> 1]>>
                /\ hwDeviceIcon' = "unpaired"

C29_AnswerStep ==
    (devicePrompts # << >> /\ devicePrompts' # devicePrompts) =>
        \/ /\ devicePrompts' = << >>
           /\ hwDeviceIcon' = "paired"
           /\ nRefreshes' = nRefreshes + 1
           /\ ~m_showDeviceError'
           /\ window' = "open"
        \/ /\ devicePrompts' = << >>
           /\ window' = "closed"
           /\ wizard'
           /\ nRefreshes' = nRefreshes
        \/ /\ devicePrompts' = <<[attempt |-> devicePrompts[1].attempt + 1]>>
           /\ m_showDeviceError'
           /\ nRefreshes' = nRefreshes
           /\ window' = "open"

C29_RefreshOnlyByReconnect ==
    nRefreshes' # nRefreshes => (devicePrompts # << >> /\ devicePrompts' = << >>)

C29_DeviceErrorPrompt ==
    /\ []C29_OneQuestion
    /\ [][C29_SignalStep /\ C29_AnswerStep /\ C29_RefreshOnlyByReconnect]_vars

C29_Witness ==
    /\ nRefreshes = 1
    /\ nDeviceErrors = 3
    /\ devicePrompts = <<[attempt |-> 2]>>
    /\ hwDeviceIcon = "unpaired"

(***************************************************************************)
(* C30: after any sequence of addToRecentlyOpened calls the stored list    *)
(* has at most 5 entries and no path twice; after a call it holds only     *)
(* paths whose file existed at the call, the wallet just opened comes      *)
(* first if its file exists, and the other entries keep the order they had.*)
(***************************************************************************)
C30_Entries(list) == {list[i] : i \in 1..Len(list)}

C30_Bounded ==
    /\ Len(recentlyOpenedWallets) <= 5
    /\ \A i, j \in 1..Len(recentlyOpenedWallets) :
          i # j => recentlyOpenedWallets[i] # recentlyOpenedWallets[j]

C30_AfterCall(keysFile) ==
    LET old == recentlyOpenedWallets
        new == recentlyOpenedWallets'
    IN  /\ C30_Entries(new) \subseteq files
        /\ C30_Entries(new) \subseteq C30_Entries(old) \cup {keysFile}
        /\ keysFile \in files => (new # << >> /\ new[1] = keysFile)
        /\ keysFile \notin files => keysFile \notin C30_Entries(new)
        /\ LET rest    == SelectSeq(new, LAMBDA p : p # keysFile)
                 Kept(p) == p \in C30_Entries(rest)
           IN  rest = SelectSeq(old, Kept)

C30_CallStep ==
    files' = files =>
        \A keysFile \in WalletPaths :
            addToRecentlyOpened(keysFile) => C30_AfterCall(keysFile)

C30_RecentlyOpenedList == []C30_Bounded /\ [][C30_CallStep]_vars

C30_Witness ==
    /\ Len(recentlyOpenedWallets) = 5
    /\ recentlyOpenedWallets[1] = "/w/f.keys"
    /\ recentlyOpenedWallets[5] = "/w/a.keys"
    /\ "/w/e.keys" \notin files
    /\ "/w/a.keys" \notin files
    /\ RecentlyOpenedMenu[2] = "b.keys"

====
